---- MODULE Spec2Model ----
(***************************************************************************)
(* A state-machine model of libpmemobj's obj.c: the pool lifecycle         *)
(* (create / open / close / check through pmemobj_map_common), the object  *)
(* directory (typed lists, first / next), the allocation facade and the    *)
(* root object.                                                            *)
(*                                                                         *)
(* The specifications share the variables:                                 *)
(*   Spec      pool lifecycle on a small set of pool files                 *)
(*   SpecObj   object operations on one open pool                          *)
(*   SpecRoot  pmemobj_root called concurrently by several threads         *)
(*   SpecZ     payload bytes under pmemobj_zalloc / pmemobj_zrealloc       *)
(*   SpecStep  create / open / check / close statement by statement, with  *)
(*             crashes of the process                                      *)
(***************************************************************************)
EXTENDS Integers, Sequences, FiniteSets, TLC

VARIABLES
    files,      \* path -> on-media image of the pool file (or NoFile)
    handles,    \* path -> runtime pool handle of the live mapping (or NoHandle)
    pools,      \* the process-wide registry (cuckoo table): set of [key, pop]
    last,       \* record of the most recent lifecycle call and its result
    hist,       \* path -> history of the pool file (ghost)
    store,      \* object store of the open pool: list heads, bytype[0..N-1] and root
    heap,       \* off -> allocated block (OOB header and sizes) or Free
    ulist,      \* a user list of the client (sequence of offsets)
    olast,      \* record of the most recent object call and its result
    ghost,      \* history of the object calls (ghost)
    pc,         \* SpecRoot: thread -> position inside pmemobj_root
    rootlock,   \* SpecRoot: owner of pop->rootlock (0: free)
    tloc,       \* SpecRoot: thread -> locals of its pmemobj_root call
    mem,        \* SpecZ: off -> payload bytes of the block
    run         \* SpecStep: the lifecycle call in progress, step by step

lifeVars == <<files, handles, pools, last, hist>>
objVars  == <<store, heap, ulist, olast, ghost>>
thrVars  == <<pc, rootlock, tloc>>
auxVars  == <<mem, run>>
vars     == <<files, handles, pools, last, hist, store, heap, ulist, olast,
              ghost, pc, rootlock, tloc, mem, run>>

(***************************************************************************)
(* Bounds of the model                                                     *)
(***************************************************************************)
\* run_id is a uint64_t; the model keeps RunIdBits bits of it so that the
\* wrap-around of "run_id += 2" is reached
RunIdBits == 3
\* PMEMOBJ_MAX_LAYOUT (libpmemobj.h), scaled down
PMEMOBJ_MAX_LAYOUT == 2
\* PMEMOBJ_NUM_OID_TYPES (libpmemobj.h), scaled down
PMEMOBJ_NUM_OID_TYPES == 2
\* number of blocks the heap can hold
MaxBlocks == 2
\* largest size a client requests
MaxSize == 2
\* number of threads calling pmemobj_root, and calls each of them makes
NThreads == 2
MaxCalls == 2

RunIdMod == 2 ^ RunIdBits

Paths == {"p1"}

\* a path with no file, a path with no live mapping, the null pointer
NoFile   == [exists |-> FALSE]
NoHandle == [mapped |-> FALSE]
NULL     == "NULL"

(***************************************************************************)
(* C strings: a string is a sequence of non-zero characters, a buffer is   *)
(* a function 1..n -> characters, with 0 the terminating NUL.              *)
(***************************************************************************)
\* a layout argument: the null pointer or a C string
NullLayout == [null |-> TRUE, str |-> <<>>]
Str(s)     == [null |-> FALSE, str |-> s]

\* the layout arguments the clients pass: NULL, "", "a", "aa"
LayoutArgs == {NullLayout, Str(<<>>), Str(<<1>>), Str(<<1, 1>>)}

strlen(s) == Len(s)

\* character i (1-based) of the C string s, the terminator past its end
CharAt(s, i) == IF i <= Len(s) THEN s[i] ELSE 0

\* strncpy(dst, src, n) into a zeroed buffer of size bufsz
strncpy(bufsz, src, n) ==
    [i \in 1..bufsz |-> IF i <= n THEN CharAt(src, i) ELSE 0]

\* strncmp(buf, s, n) = 0: the first n characters agree up to the terminator
strncmp_eq(buf, s, n) ==
    \A i \in 1..n :
        (\A j \in 1..(i - 1) : buf[j] # 0 /\ buf[j] = CharAt(s, j))
            => buf[i] = CharAt(s, i)

ZeroBuf(n) == [i \in 1..n |-> 0]

(***************************************************************************)
(* Bytes and the 16-byte pool UUID                                         *)
(***************************************************************************)
RECURSIVE XorBits(_, _, _)
XorBits(a, b, n) ==
    IF n = 0 THEN 0
    ELSE ((a + b) % 2) + 2 * XorBits(a \div 2, b \div 2, n - 1)

\* a ^ b on uint8_t
Xor8(a, b) == XorBits(a, b, 8)

\* what uuid_generate may return
UUIDs ==
    { <<1, 2, 0, 0, 0, 0, 0, 0,   0, 0, 0, 0, 0, 0, 0, 3>>,
      <<255, 1, 0, 0, 0, 0, 0, 0, 15, 1, 0, 0, 0, 0, 0, 9>> }

ZeroUuid == [i \in 1..16 |-> 0]

\* the loop of pmemobj_get_uuid_lo:
\* uuid_lo = (uuid_lo << 8) | (uuid[i] ^ uuid[8 + i]), i = 0..7.
\* The 64-bit result is kept as its eight bytes, most significant first.
UuidFold(uuid) == [i \in 1..8 |-> Xor8(uuid[i], uuid[8 + i])]

RECURSIVE SumSeq(_, _)
SumSeq(s, n) == IF n = 0 THEN 0 ELSE s[n] + SumSeq(s, n - 1)

\* the fold and the byte sum of the UUIDs in use, computed once
UuidFoldOf == [u \in UUIDs \cup {ZeroUuid} |-> UuidFold(u)]
UuidSumOf  == [u \in UUIDs \cup {ZeroUuid} |-> SumSeq(u, 16)]

\* pmemobj_get_uuid_lo(pop), from the uuid of pop->hdr
pmemobj_get_uuid_lo(uuid) == UuidFoldOf[uuid]

(***************************************************************************)
(* The on-media image of a pool file                                       *)
(*   hdr     struct pool_hdr (signature, major, features, uuid, arch       *)
(*           flags, checksum)                                              *)
(*   dsc     the persistent part of the pool descriptor (layout, offsets,  *)
(*           sizes, checksum)                                              *)
(*   run_id  persistent, not checksummed                                   *)
(*   lanes, obj_store, heap   what the regions hold                        *)
(***************************************************************************)
OBJ_HDR_SIG      == "PMEMOBJ"
OBJ_FORMAT_MAJOR == 1
\* feature masks the library knows, as sets of bit numbers
OBJ_FORMAT_COMPAT    == {}
OBJ_FORMAT_INCOMPAT  == {}
OBJ_FORMAT_RO_COMPAT == {}

\* layout of the file, in abstract units (obj.h); PoolSize is the size the
\* clients create pools with
OBJ_LANES_OFFSET == 3
OBJ_NLANES       == 2
LaneSize         == 1
StoreItemSize    == 1
PoolSize         == 16

ZeroHdr ==
    [signature |-> "", major |-> 0, compat |-> {}, incompat |-> {},
     ro_compat |-> {}, uuid |-> ZeroUuid, arch |-> "zero", checksum |-> 0]

ZeroDsc ==
    [layout |-> ZeroBuf(PMEMOBJ_MAX_LAYOUT), lanes_offset |-> 0, nlanes |-> 0,
     obj_store_offset |-> 0, obj_store_size |-> 0, heap_offset |-> 0,
     heap_size |-> 0, checksum |-> 0]

\* a file as util_pool_create leaves it: all zeros
ZeroFile ==
    [exists |-> TRUE, hdr |-> ZeroHdr, dsc |-> ZeroDsc, run_id |-> 0, lanes |-> "zero",
     obj_store |-> "zero", heap |-> "zero"]

\* util_checksum over the pool header (the checksum field excluded): a
\* non-zero digest of the fields
HdrSum(h) ==
    1 + ((UuidSumOf[h.uuid] + h.major + Cardinality(h.compat)
          + 2 * Cardinality(h.incompat) + 3 * Cardinality(h.ro_compat)
          + (IF h.signature = OBJ_HDR_SIG THEN 7 ELSE 0)
          + (IF h.arch = "host" THEN 11 ELSE 0)) % 251)

\* util_checksum over the descriptor (the checksum field excluded)
DscSum(d) ==
    1 + ((SumSeq(d.layout, PMEMOBJ_MAX_LAYOUT) + d.lanes_offset + d.nlanes
          + d.obj_store_offset + d.obj_store_size + d.heap_offset
          + d.heap_size) % 251)

\* util_is_zeroed(hdrp, sizeof (*hdrp))
util_is_zeroed(h) == h = ZeroHdr

\* util_convert_hdr: verifies the header checksum (and converts the fields
\* to host byte order; the model keeps host order)
util_convert_hdr(h) == h.checksum = HdrSum(h)

\* util_check_arch_flags: 0 when the stored flags are those of this machine
util_check_arch_flags(h) == IF h.arch = "host" THEN 0 ELSE 1

\* util_feature_check: -1 on unknown incompat features, 0 on unknown
\* ro_compat features, 1 otherwise
util_feature_check(h, incompat, ro_compat, compat) ==
    IF h.incompat \ incompat # {} THEN -1
    ELSE IF h.ro_compat \ ro_compat # {} THEN 0
    ELSE 1

(***************************************************************************)
(* The registry: cuckoo table uuid_lo -> pool handle                       *)
(***************************************************************************)
cuckoo_get(tab, key) ==
    IF \E e \in tab : e.key = key
    THEN (CHOOSE e \in tab : e.key = key).pop
    ELSE NULL

\* cuckoo_insert: fails on a key already present, and when it cannot grow
cuckoo_insert(tab, key, pop, nomem) ==
    IF cuckoo_get(tab, key) # NULL THEN [rc |-> "EINVAL", tab |-> tab]
    ELSE IF nomem THEN [rc |-> "ENOMEM", tab |-> tab]
    ELSE [rc |-> "none", tab |-> tab \cup {[key |-> key, pop |-> pop]}]

\* cuckoo_remove: removes the key, returns its value (NULL when absent)
cuckoo_remove(tab, key) ==
    [val |-> cuckoo_get(tab, key), tab |-> {e \in tab : e.key # key}]

(***************************************************************************)
(* pmemobj_map_common                                                      *)
(***************************************************************************)
\* what can go wrong outside obj.c during one call: nothing, util_map,
\* util_get_arch_flags, heap_init, lane_boot, heap_boot, or cuckoo_insert
\* running out of memory
Faults ==
    {"none", "map", "arch", "heap_init", "lane_boot", "heap_boot", "insert"}

\* lines 305-308: run_id += 2; if (run_id == 0) run_id += 2, on RunIdBits bits
NextRunId_nowrap(r) == (r + 2) % RunIdMod
NextRunId_four(r) ==
    LET r1 == (r + 4) % RunIdMod
    IN  IF r1 = 0 THEN (r1 + 2) % RunIdMod ELSE r1
NextRunId(r) ==
    LET r1 == (r + 2) % RunIdMod
    IN  IF r1 = 0 THEN (r1 + 2) % RunIdMod ELSE r1

\* lines 189-190: the layout check of open passes
LayoutOk_prefix(buf, layout) ==
    layout.null \/ strncmp_eq(buf, layout.str, strlen(layout.str))
LayoutOk(buf, layout) ==
    layout.null \/ strncmp_eq(buf, layout.str, PMEMOBJ_MAX_LAYOUT)

\* line 325: the uuid_lo installed in the runtime part of the handle
RuntimeUuidLo_createonly(img, empty) ==
    IF empty THEN pmemobj_get_uuid_lo(img.hdr.uuid)
    ELSE pmemobj_get_uuid_lo(ZeroUuid)
RuntimeUuidLo(img, empty) == pmemobj_get_uuid_lo(img.hdr.uuid)

\* lines 159-212: validation of an existing pool.  "EINVAL" when a check
\* fails, otherwise the rdonly flag the handle gets.
ValidateOpen(img, layout, rdonly) ==
    IF ~util_convert_hdr(img.hdr) THEN [errno |-> "EINVAL", rdonly |-> rdonly]
    ELSE IF img.hdr.signature # OBJ_HDR_SIG
        THEN [errno |-> "EINVAL", rdonly |-> rdonly]
    ELSE IF img.hdr.major # OBJ_FORMAT_MAJOR
        THEN [errno |-> "EINVAL", rdonly |-> rdonly]
    ELSE IF util_check_arch_flags(img.hdr) # 0
        THEN [errno |-> "EINVAL", rdonly |-> rdonly]
    ELSE IF ~LayoutOk(img.dsc.layout, layout)
        THEN [errno |-> "EINVAL", rdonly |-> rdonly]
    ELSE IF img.dsc.checksum # DscSum(img.dsc)
        THEN [errno |-> "EINVAL", rdonly |-> rdonly]
    ELSE LET retval == util_feature_check(img.hdr, OBJ_FORMAT_INCOMPAT,
                            OBJ_FORMAT_RO_COMPAT, OBJ_FORMAT_COMPAT)
         IN  IF retval < 0 THEN [errno |-> "EINVAL", rdonly |-> rdonly]
             ELSE IF retval = 0 THEN [errno |-> "none", rdonly |-> TRUE]
             ELSE [errno |-> "none", rdonly |-> rdonly]

\* lines 234-254: the header create writes, before / after its checksum
NewHdrNoSum(uuid) ==
    [signature |-> OBJ_HDR_SIG, major |-> OBJ_FORMAT_MAJOR,
     compat |-> OBJ_FORMAT_COMPAT, incompat |-> OBJ_FORMAT_INCOMPAT,
     ro_compat |-> OBJ_FORMAT_RO_COMPAT, uuid |-> uuid, arch |-> "zero",
     checksum |-> 0]
NewHdr(uuid) ==
    LET h == [NewHdrNoSum(uuid) EXCEPT !.arch = "host"]
    IN  [h EXCEPT !.checksum = HdrSum(h)]

\* lines 273-292: the descriptor create writes, before its checksum
NewDscNoSum(layout, poolsize) ==
    LET obj_store_offset == OBJ_LANES_OFFSET + OBJ_NLANES * LaneSize
        obj_store_size   == (PMEMOBJ_NUM_OID_TYPES + 1) * StoreItemSize
    IN  [layout |-> IF layout.null THEN ZeroBuf(PMEMOBJ_MAX_LAYOUT)
                    ELSE strncpy(PMEMOBJ_MAX_LAYOUT, layout.str,
                                 PMEMOBJ_MAX_LAYOUT - 1),
         lanes_offset |-> OBJ_LANES_OFFSET, nlanes |-> OBJ_NLANES,
         obj_store_offset |-> obj_store_offset,
         obj_store_size |-> obj_store_size,
         heap_offset |-> obj_store_offset + obj_store_size,
         heap_size |-> poolsize - (obj_store_offset + obj_store_size),
         checksum |-> 0]

\* lines 213-303: the create path.  errno "none" when it reaches the common
\* part; img is the mapping's content when it leaves.
CreatePath(img, layout, poolsize, uuid, fault) ==
    IF ~util_is_zeroed(img.hdr) THEN [errno |-> "EINVAL", img |-> img]
    ELSE IF ~layout.null /\ strlen(layout.str) >= PMEMOBJ_MAX_LAYOUT
        THEN [errno |-> "EINVAL", img |-> img]
    ELSE IF fault = "arch"
        THEN [errno |-> "EINVAL",
              img |-> [img EXCEPT !.hdr = NewHdrNoSum(uuid)]]
    ELSE LET i1 == [img EXCEPT !.hdr = NewHdr(uuid), !.run_id = 0,
                               !.lanes = "zero", !.obj_store = "zero",
                               !.dsc = NewDscNoSum(layout, poolsize)]
         IN  IF fault = "heap_init" THEN [errno |-> "ENOMEM", img |-> i1]
             ELSE [errno |-> "none",
                   img |-> [i1 EXCEPT !.heap = "init",
                                       !.dsc.checksum = DscSum(i1.dsc)]]

\* lines 305-309: the only store of the common part into the persistent
\* part of the pool
BumpRunId_restamp(img) ==
    LET h == [img.hdr EXCEPT !.compat = IF @ = {} THEN {1} ELSE {}]
    IN  [img EXCEPT !.run_id = NextRunId(img.run_id),
                    !.hdr = [h EXCEPT !.checksum = HdrSum(h)]]
BumpRunId(img) == [img EXCEPT !.run_id = NextRunId(img.run_id)]

\* lines 305-369: the part common to create and open.  The result holds the
\* handle (pop) when ok, the errno otherwise, the mapping's content and the
\* registry.
CommonOpen_rollback(img, path, rdonly, empty, fault, tab) ==
    LET i1  == BumpRunId(img)
        pop == [mapped |-> TRUE, path |-> path, rdonly |-> rdonly,
                uuid_lo |-> RuntimeUuidLo(i1, empty), run_id |-> i1.run_id]
        ins == cuckoo_insert(tab, pop.uuid_lo, path, fault = "insert")
    IN  IF fault \in {"lane_boot", "heap_boot"}
            THEN [ok |-> FALSE, errno |-> "ENOMEM", img |-> img, pop |-> NoHandle,
                  tab |-> tab]
        ELSE IF ins.rc # "none"
            THEN [ok |-> FALSE, errno |-> ins.rc, img |-> img, pop |-> NoHandle,
                  tab |-> tab]
        ELSE [ok |-> TRUE, errno |-> "none", img |-> i1, pop |-> pop,
              tab |-> ins.tab]
CommonOpen(img, path, rdonly, empty, fault, tab) ==
    LET i1  == BumpRunId(img)
        pop == [mapped |-> TRUE, path |-> path, rdonly |-> rdonly,
                uuid_lo |-> RuntimeUuidLo(i1, empty), run_id |-> i1.run_id]
        ins == cuckoo_insert(tab, pop.uuid_lo, path, fault = "insert")
    IN  IF fault = "lane_boot"
            THEN [ok |-> FALSE, errno |-> "ENOMEM", img |-> i1, pop |-> NoHandle,
                  tab |-> tab]
        ELSE IF fault = "heap_boot"
            THEN [ok |-> FALSE, errno |-> "ENOMEM", img |-> i1, pop |-> NoHandle,
                  tab |-> tab]
        ELSE IF ins.rc # "none"
            THEN [ok |-> FALSE, errno |-> ins.rc, img |-> i1, pop |-> NoHandle,
                  tab |-> tab]
        ELSE [ok |-> TRUE, errno |-> "none", img |-> i1, pop |-> pop,
              tab |-> ins.tab]

\* pmemobj_map_common(fd, layout, poolsize, rdonly, empty) on the file with
\* content f.  util_map maps a read-only pool copy-on-write: what is written
\* through such a mapping never reaches the file.
pmemobj_map_common(f, path, layout, poolsize, rdonly, empty, uuid, fault, tab) ==
    LET fail(e, img) ==
            [ok |-> FALSE, errno |-> e, pop |-> NoHandle, tab |-> tab,
             file |-> IF rdonly THEN f ELSE img]
        done(r) ==
            [ok |-> r.ok, errno |-> r.errno, pop |-> r.pop, tab |-> r.tab,
             file |-> IF rdonly THEN f ELSE r.img]
    IN  IF fault = "map" THEN fail("ENOMEM", f)
        ELSE IF ~empty
            THEN LET v == ValidateOpen(f, layout, rdonly)
                 IN  IF v.errno # "none" THEN fail(v.errno, f)
                     ELSE done(CommonOpen(f, path, v.rdonly, empty, fault, tab))
        ELSE LET c == CreatePath(f, layout, poolsize, uuid, fault)
             IN  IF c.errno # "none" THEN fail(c.errno, c.img)
                 ELSE done(CommonOpen(c.img, path, rdonly, empty, fault, tab))

(***************************************************************************)
(* The lifecycle calls                                                     *)
(***************************************************************************)
NoUuidLo == pmemobj_get_uuid_lo(ZeroUuid)

\* what held of the pool when a call began: whether it was mapped, whether
\* the latest pmemobj_create / pmemobj_open of it had succeeded, and the
\* run_id that one left
NoPre == [was_open |-> FALSE, prev_ok |-> FALSE, prev_run |-> 0]

NoCall ==
    [op |-> "none", path |-> "p1", layout |-> NullLayout, fault |-> FALSE,
     at |-> "none", ok |-> FALSE, ret |-> 0, errno |-> "none", run_before |-> 0,
     uuid_lo |-> NoUuidLo, pre |-> NoPre]

\* history of a pool file: whether a create of it succeeded, with which
\* layout argument and which uuid_lo in the handle; whether the latest
\* pmemobj_create / pmemobj_open of it succeeded, and the run_id it left
NoHist ==
    [created |-> FALSE, c_layout |-> NullLayout, c_uuid_lo |-> NoUuidLo,
     prev_ok |-> FALSE, prev_run |-> 0]

Pre(path) ==
    [was_open |-> handles[path].mapped, prev_ok |-> hist[path].prev_ok,
     prev_run |-> hist[path].prev_run]

\* fault: whether something outside obj.c failed during the call, at: what
Call(op, path, layout, fault, ok, ret, errno, run_before, uuid_lo) ==
    [op |-> op, path |-> path, layout |-> layout, fault |-> (fault # "none"),
     at |-> fault, ok |-> ok,
     ret |-> ret, errno |-> errno, run_before |-> run_before,
     uuid_lo |-> uuid_lo, pre |-> Pre(path)]

RunOf(f) == IF f.exists THEN f.run_id ELSE 0

\* pmemobj_create(path, layout, poolsize, mode)
pmemobj_create(path, layout, poolsize, uuid, fault) ==
    LET f == files[path] IN
    IF (poolsize # 0 /\ f.exists) \/ (poolsize = 0 /\ ~f.exists)
    THEN \* util_pool_create / util_pool_open returned -1
         /\ last' = Call("create", path, layout, fault, FALSE, 0,
                         IF f.exists THEN "EEXIST" ELSE "ENOENT",
                         RunOf(f), NoUuidLo)
         /\ UNCHANGED <<files, handles, pools, hist>>
    ELSE \E r \in {pmemobj_map_common(IF f.exists THEN f ELSE ZeroFile, path,
                        layout, PoolSize, FALSE, TRUE, uuid, fault, pools)} :
             /\ files' = [files EXCEPT ![path] = r.file]
             /\ pools' = r.tab
             /\ handles' = IF r.ok THEN [handles EXCEPT ![path] = r.pop]
                           ELSE handles
             /\ hist' = IF r.ok
                        THEN [hist EXCEPT ![path] =
                                [created |-> TRUE, c_layout |-> layout,
                                 c_uuid_lo |-> r.pop.uuid_lo, prev_ok |-> TRUE,
                                 prev_run |-> r.file.run_id]]
                        ELSE hist
             /\ last' = Call("create", path, layout, fault, r.ok, 0, r.errno,
                             RunOf(f),
                             IF r.ok THEN r.pop.uuid_lo ELSE NoUuidLo)

\* pmemobj_open(path, layout)
pmemobj_open(path, layout, fault) ==
    LET f == files[path] IN
    IF ~f.exists
    THEN /\ last' = Call("open", path, layout, fault, FALSE, 0, "ENOENT", 0,
                         NoUuidLo)
         /\ UNCHANGED <<files, handles, pools, hist>>
    ELSE \E r \in {pmemobj_map_common(f, path, layout, PoolSize, FALSE, FALSE,
                                     ZeroUuid, fault, pools)} :
             /\ files' = [files EXCEPT ![path] = r.file]
             /\ pools' = r.tab
             /\ handles' = IF r.ok THEN [handles EXCEPT ![path] = r.pop]
                           ELSE handles
             /\ hist' = [hist EXCEPT ![path].prev_ok = r.ok,
                                     ![path].prev_run = r.file.run_id]
             /\ last' = Call("open", path, layout, fault, r.ok, 0, r.errno,
                             f.run_id,
                             IF r.ok THEN r.pop.uuid_lo ELSE NoUuidLo)

\* pmemobj_close(pop), pop the handle of the pool mapped from path
pmemobj_close(path) ==
    LET pop == handles[path] IN
    /\ pop.mapped
    /\ pools' = cuckoo_remove(pools, pop.uuid_lo).tab
    /\ handles' = [handles EXCEPT ![path] = NoHandle]
    /\ last' = Call("close", path, NullLayout, "none", TRUE, 0, "none",
                    RunOf(files[path]), pop.uuid_lo)
    /\ UNCHANGED <<files, hist>>

\* what can go wrong outside obj.c during pmemobj_open and pmemobj_check
OpenFaults  == Faults \ {"arch", "heap_init"}
CheckFaults == OpenFaults \cup {"heap_check", "lane_check"}

\* line 478: pop->run_id % 2
RunIdOdd_never(pop) == FALSE
RunIdOdd(pop) == pop.run_id % 2 # 0

\* pmemobj_check(path, layout): -1, 0 (inconsistent) or 1 (consistent)
pmemobj_check(path, layout, fault) ==
    LET f == files[path] IN
    IF ~f.exists
    THEN /\ last' = Call("check", path, layout, fault, FALSE, -1, "ENOENT", 0,
                         NoUuidLo)
         /\ UNCHANGED <<files, handles, pools, hist>>
    ELSE \E r \in {pmemobj_map_common(f, path, layout, PoolSize, TRUE, FALSE,
                                      ZeroUuid, fault, pools)} :
         LET c1 == IF r.ok /\ RunIdOdd(r.pop) THEN 0 ELSE 1
             c2 == IF fault = "heap_check" THEN 0 ELSE c1
             consistent == IF fault = "lane_check" THEN 0 ELSE c2
         IN  /\ files' = [files EXCEPT ![path] = r.file]
             /\ pools' = IF r.ok THEN cuckoo_remove(r.tab, r.pop.uuid_lo).tab
                         ELSE r.tab
             /\ last' = Call("check", path, layout, fault, r.ok,
                             IF r.ok THEN consistent ELSE -1,
                             IF r.ok THEN "none" ELSE r.errno, f.run_id,
                             IF r.ok THEN r.pop.uuid_lo ELSE NoUuidLo)
             /\ UNCHANGED <<handles, hist>>

(***************************************************************************)
(* Specification of the pool lifecycle                                     *)
(***************************************************************************)
Create ==
    \E path \in Paths, layout \in LayoutArgs, poolsize \in {0, PoolSize},
       uuid \in UUIDs, fault \in Faults :
        pmemobj_create(path, layout, poolsize, uuid, fault)

Open ==
    \E path \in Paths, layout \in LayoutArgs, fault \in OpenFaults :
        pmemobj_open(path, layout, fault)

Close == \E path \in Paths : pmemobj_close(path)

Check ==
    \E path \in Paths, layout \in LayoutArgs, fault \in CheckFaults :
        pmemobj_check(path, layout, fault)

(***************************************************************************)
(* Properties of the pool lifecycle (checked under Spec)                   *)
(***************************************************************************)
\* C1: after any successful pmemobj_create or pmemobj_open the persistent
\* run_id of the pool (and the run_id the handle sees) is even and non-zero.
C1_RunIdEvenNonZero ==
    (last.op \in {"create", "open"} /\ last.ok) =>
        /\ files[last.path].run_id % 2 = 0
        /\ files[last.path].run_id # 0
        /\ handles[last.path].run_id = files[last.path].run_id

\* a successful open that wrapped run_id around
C1_Witness ==
    /\ last.op = "open"
    /\ last.ok
    /\ last.run_before = RunIdMod - 2
    /\ files[last.path].run_id = 2

\* C2: when a pmemobj_open succeeds and the open (or create) call before it
\* on the same pool succeeded too, run_id after the second equals run_id
\* after the first plus 2 modulo 2^RunIdBits, with 0 replaced by 2: the
\* close, the checks and the rejected creates in between leave run_id alone.
C2_RunIdStep ==
    (last.op = "open" /\ last.ok /\ last.pre.prev_ok) =>
        LET r1 == last.pre.prev_run
            r2 == files[last.path].run_id
        IN  /\ last.run_before = r1
            /\ r2 = IF (r1 + 2) % RunIdMod = 0 THEN 2 ELSE (r1 + 2) % RunIdMod

\* two successive successful opens, the second one wrapping around
C2_Witness ==
    /\ last.op = "open"
    /\ last.ok
    /\ last.pre.prev_ok
    /\ ~last.pre.was_open
    /\ last.pre.prev_run = RunIdMod - 2
    /\ files[last.path].run_id = 2

\* C3: for a pool made by a successful pmemobj_create(p, L, N), every
\* pmemobj_open that succeeds returns a handle with the uuid_lo of the handle
\* create returned, after any number of close / open cycles; and
\* pmemobj_open(p, L) on the closed pool succeeds whenever nothing outside
\* obj.c (util_map, lane_boot, heap_boot, cuckoo_insert) fails.
C3_RoundTrip ==
    (last.op = "open" /\ hist[last.path].created) =>
        /\ last.ok =>
              /\ last.uuid_lo = hist[last.path].c_uuid_lo
              /\ handles[last.path].uuid_lo = hist[last.path].c_uuid_lo
        /\ (/\ last.layout = hist[last.path].c_layout
            /\ ~last.fault
            /\ ~last.pre.was_open) => last.ok

\* the second open(p, L) after create(p, L, N), L not null
C3_Witness ==
    /\ last.op = "open"
    /\ last.ok
    /\ hist[last.path].created
    /\ ~last.layout.null
    /\ last.layout = hist[last.path].c_layout
    /\ last.run_before >= 4
    /\ last.uuid_lo = hist[last.path].c_uuid_lo
    /\ last.uuid_lo # NoUuidLo

\* C4 as stated: for a pool created with layout L, pmemobj_open(path, L2)
\* (on the closed pool, nothing outside obj.c failing) succeeds if and only
\* if L2 is null or identical to L; otherwise it returns null with EINVAL
\* and no handle is registered.
C4_AsStated ==
    (/\ last.op = "open"
     /\ hist[last.path].created
     /\ ~last.fault
     /\ ~last.pre.was_open) =>
        LET L  == hist[last.path].c_layout
            L2 == last.layout
            match == L2.null \/ L2 = L
        IN  /\ last.ok <=> match
            /\ ~match => /\ last.errno = "EINVAL"
                          /\ ~handles[last.path].mapped
                          /\ pools = {}

\* C4 (amended): for a pool created with layout L, pmemobj_open(path, L2)
\* passes the layout check if and only if L2 is null or L2 equals the layout
\* name create stored: L, or the empty string when L was null.  For any
\* other L2 the open returns null with EINVAL and no handle is registered.
C4_LayoutCheck ==
    (/\ last.op = "open"
     /\ hist[last.path].created
     /\ ~last.fault
     /\ ~last.pre.was_open) =>
        LET L  == hist[last.path].c_layout
            L2 == last.layout
            match == L2.null \/ L2.str = (IF L.null THEN <<>> ELSE L.str)
        IN  /\ last.ok <=> match
            /\ ~match => /\ last.errno = "EINVAL"
                          /\ ~handles[last.path].mapped
                          /\ pools = {}

\* an open with a layout that differs from the stored one was rejected
C4_Witness ==
    /\ last.op = "open"
    /\ hist[last.path].created
    /\ ~last.fault
    /\ ~last.pre.was_open
    /\ ~last.layout.null
    /\ ~hist[last.path].c_layout.null
    /\ last.layout # hist[last.path].c_layout
    /\ ~last.ok
    /\ last.errno = "EINVAL"

(***************************************************************************)
(* The object store and the heap of one open pool                          *)
(*                                                                         *)
(* A block of the heap is named by the offset of its payload (1..MaxBlocks *)
(* in abstract units; 0 is the null offset).  A block holds the OOB header *)
(* (internal_type, user_type, size, the list entry pe_next / pe_prev) and  *)
(* the usable size the allocator gave it.                                  *)
(* struct object_store is bytype[PMEMOBJ_NUM_OID_TYPES] followed by root:  *)
(* store[t] is bytype[t].head, store[PMEMOBJ_NUM_OID_TYPES] is root.head.  *)
(***************************************************************************)
UINT16_MAX == 65535

Offs    == 1..MaxBlocks
Types   == 0..(PMEMOBJ_NUM_OID_TYPES - 1)
RootIdx == PMEMOBJ_NUM_OID_TYPES
Sizes   == 1..MaxSize

\* the type numbers the clients pass: the valid ones, a negative one and the
\* first one past the end of bytype[]
TypeArgs == (-1)..PMEMOBJ_NUM_OID_TYPES

\* the pool SpecObj and SpecRoot work on
ObjPath   == "p1"
ObjUuid   == <<1, 2, 0, 0, 0, 0, 0, 0,   0, 0, 0, 0, 0, 0, 0, 3>>
ObjUuidLo == pmemobj_get_uuid_lo(ObjUuid)

OID(off) == [pool_uuid_lo |-> ObjUuidLo, off |-> off]
OID_NULL == [pool_uuid_lo |-> NoUuidLo, off |-> 0]

FreeBlock ==
    [used |-> FALSE, internal_type |-> "OP_NONE", user_type |-> 0, size |-> 0,
     pe_next |-> OID_NULL, pe_prev |-> OID_NULL, usable |-> 0]

\* the payloads when no block is allocated; no lifecycle call in progress
NoMem == [o \in Offs |-> <<>>]
NoRun == [pc |-> "idle"]

EmptyStore == [i \in 0..RootIdx |-> [pe_first |-> OID_NULL]]
EmptyHeap  == [o \in Offs |-> FreeBlock]

\* pmalloc_usable_size of a block allocated for size bytes: the allocator
\* rounds up to its unit of two
UsableFor(size) == size + (size % 2)

\* the elements of the circular list at head index i, from pe_first along
\* pe_next (at most n of them)
RECURSIVE RingFrom(_, _, _, _)
RingFrom(hp, first, o, n) ==
    IF n = 0 \/ o = 0 THEN <<>>
    ELSE LET nx == hp[o].pe_next.off
         IN  IF nx = first THEN <<o>>
             ELSE <<o>> \o RingFrom(hp, first, nx, n - 1)

Ring(st, hp, i) ==
    RingFrom(hp, st[i].pe_first.off, st[i].pe_first.off, MaxBlocks + 1)

SeqRange(q) == {q[k] : k \in 1..Len(q)}

\* a constructor the facade hands to the list primitives
\*   kind "bytype": constructor_alloc_bytype (lines 573-590), with the user's
\*                  constructor (zalloc, strdup or none) run after it
\*   kind "root":   constructor_alloc_root (lines 837-852)
\*   kind "none":   no constructor, or one that only writes the payload
RunCtor(blk, ctor) ==
    IF ctor.kind = "bytype"
        THEN [blk EXCEPT !.internal_type = "OP_ALLOC",
                         !.user_type = ctor.user_type]
    ELSE IF ctor.kind = "root"
        THEN [blk EXCEPT !.internal_type = "OP_ALLOC",
                         !.user_type = UINT16_MAX, !.size = ctor.size]
    ELSE blk

NoCtor == [kind |-> "none", user_type |-> 0, size |-> 0]

\* link block o (already in hp) at the tail of the circular list at index i
RingAppend(st, hp, i, o) ==
    LET first == st[i].pe_first.off IN
    IF first = 0
    THEN [st |-> [st EXCEPT ![i].pe_first = OID(o)],
          hp |-> [hp EXCEPT ![o].pe_next = OID(o), ![o].pe_prev = OID(o)]]
    ELSE LET lst == hp[first].pe_prev.off
             h1  == [hp EXCEPT ![o].pe_next = OID(first),
                               ![o].pe_prev = OID(lst)]
             h2  == [h1 EXCEPT ![lst].pe_next = OID(o)]
             h3  == [h2 EXCEPT ![first].pe_prev = OID(o)]
         IN  [st |-> st, hp |-> h3]

\* unlink block o from the circular list at index i
RingRemove(st, hp, i, o) ==
    LET nx == hp[o].pe_next.off
        pv == hp[o].pe_prev.off
    IN  IF nx = o
        THEN [st |-> [st EXCEPT ![i].pe_first = OID_NULL], hp |-> hp]
        ELSE LET h1 == [hp EXCEPT ![pv].pe_next = OID(nx)]
                 h2 == [h1 EXCEPT ![nx].pe_prev = OID(pv)]
             IN  [st |-> IF st[i].pe_first.off = o
                         THEN [st EXCEPT ![i].pe_first = OID(nx)] ELSE st,
                  hp |-> h2]

\* block n takes the place of block o in the circular list at index i
RingReplace(st, hp, i, o, n) ==
    LET nx == hp[o].pe_next.off
        pv == hp[o].pe_prev.off
    IN  IF nx = o
        THEN [st |-> [st EXCEPT ![i].pe_first = OID(n)],
              hp |-> [hp EXCEPT ![n].pe_next = OID(n), ![n].pe_prev = OID(n)]]
        ELSE LET h1 == [hp EXCEPT ![n].pe_next = OID(nx), ![n].pe_prev = OID(pv)]
                 h2 == [h1 EXCEPT ![pv].pe_next = OID(n)]
                 h3 == [h2 EXCEPT ![nx].pe_prev = OID(n)]
             IN  [st |-> IF st[i].pe_first.off = o
                         THEN [st EXCEPT ![i].pe_first = OID(n)] ELSE st,
                  hp |-> h3]

\* insert o into the user list ul next to dest (at the head or the tail
\* when dest is null)
UserInsert(ul, dest, before, o) ==
    IF dest = 0 \/ dest \notin SeqRange(ul)
    THEN IF before THEN <<o>> \o ul ELSE Append(ul, o)
    ELSE LET k == CHOOSE j \in 1..Len(ul) : ul[j] = dest
             cut == IF before THEN k - 1 ELSE k
         IN  SubSeq(ul, 1, cut) \o <<o>> \o SubSeq(ul, cut + 1, Len(ul))

\* the results of the list primitives
LRes(ok, errno, oid, st, hp, ul) ==
    [ok |-> ok, errno |-> errno, oid |-> oid, st |-> st, hp |-> hp, ul |-> ul]

\* list_insert_new(pop, oob_head, pe_offset, head, dest, before, size,
\*                 constructor, arg):
\* allocates block off (a free one the allocator picks), runs the
\* constructor on it and links it at the tail of the OOB list at index i
\* and, with a user head, into the user list; all or nothing.
list_insert_new(st, hp, ul, i, userhead, dest, before, size, ctor, off, nomem) ==
    IF nomem \/ off = 0 THEN LRes(FALSE, "ENOMEM", OID_NULL, st, hp, ul)
    ELSE LET blk == RunCtor([FreeBlock EXCEPT !.used = TRUE,
                                !.usable = UsableFor(size)], ctor)
             r   == RingAppend(st, [hp EXCEPT ![off] = blk], i, off)
         IN  LRes(TRUE, "none", OID(off), r.st, r.hp,
                  IF userhead THEN UserInsert(ul, dest, before, off) ELSE ul)

\* list_remove_free(pop, oob_head, pe_offset, head, oid): unlinks the object
\* from the OOB list at index i and frees its block
list_remove_free(st, hp, ul, i, oid, fail) ==
    IF fail THEN LRes(FALSE, "ENOMEM", oid, st, hp, ul)
    ELSE LET r == RingRemove(st, hp, i, oid.off)
         IN  LRes(TRUE, "none", OID_NULL, r.st,
                  [r.hp EXCEPT ![oid.off] = FreeBlock], ul)

\* a field the list primitive writes in the OOB header within its
\* transaction (field_offset, field_value)
NoField == [name |-> "none", value |-> 0]
SetField(blk, fld) ==
    IF fld.name = "user_type" THEN [blk EXCEPT !.user_type = fld.value]
    ELSE IF fld.name = "size" THEN [blk EXCEPT !.size = fld.value]
    ELSE blk

\* list_realloc(pop, oob_head, pe_offset, head, size, constructor, arg,
\*              field_offset, field_value, oidp):
\* resizes the object in place (off = its offset) or into block off, which
\* then takes its place in the OOB list at index i; the constructor runs on
\* the result and the field is written; all or nothing.
list_realloc(st, hp, ul, i, oid, size, ctor, fld, off, nomem) ==
    IF nomem \/ off = 0 THEN LRes(FALSE, "ENOMEM", oid, st, hp, ul)
    ELSE IF off = oid.off
    THEN LET blk == SetField(RunCtor([hp[off] EXCEPT !.usable = UsableFor(size)],
                                     ctor), fld)
         IN  LRes(TRUE, "none", oid, st, [hp EXCEPT ![off] = blk], ul)
    ELSE LET blk == SetField(RunCtor([hp[oid.off] EXCEPT
                                         !.usable = UsableFor(size)], ctor), fld)
             r   == RingReplace(st, [hp EXCEPT ![off] = blk], i, oid.off, off)
         IN  LRes(TRUE, "none", OID(off), r.st,
                  [r.hp EXCEPT ![oid.off] = FreeBlock], ul)

\* list_realloc_move(pop, oob_head_old, oob_head_new, pe_offset, head, size,
\*                   constructor, arg, field_offset, field_value, oidp):
\* as list_realloc, and the object leaves the OOB list at index i for the
\* tail of the one at index j, in the same transaction.
list_realloc_move(st, hp, ul, i, j, oid, size, ctor, fld, off, nomem) ==
    IF nomem \/ off = 0 THEN LRes(FALSE, "ENOMEM", oid, st, hp, ul)
    ELSE LET r1  == RingRemove(st, hp, i, oid.off)
             blk == SetField(RunCtor([hp[oid.off] EXCEPT
                                         !.usable = UsableFor(size)], ctor), fld)
             h1  == IF off = oid.off THEN r1.hp
                    ELSE [r1.hp EXCEPT ![oid.off] = FreeBlock]
             r2  == RingAppend(r1.st, [h1 EXCEPT ![off] = blk], j, off)
         IN  LRes(TRUE, "none", OID(off), r2.st, r2.hp, ul)

(***************************************************************************)
(* The allocation facade, the cursor operations and the root object        *)
(***************************************************************************)
\* lines 602, 635, 767, 938, 1001:
\* type_num < 0 || type_num >= PMEMOBJ_NUM_OID_TYPES
BadTypeNum_offbyone(type_num) ==
    type_num < 0 \/ type_num > PMEMOBJ_NUM_OID_TYPES
BadTypeNum(type_num) ==
    type_num < 0 \/ type_num >= PMEMOBJ_NUM_OID_TYPES

\* lines 609-618: the arguments pmemobj_alloc_construct hands to
\* constructor_alloc_bytype (carg.user_type = type_num)
BytypeCtor_untyped(type_num) == [kind |-> "bytype", user_type |-> 0, size |-> 0]
BytypeCtor(type_num) == [kind |-> "bytype", user_type |-> type_num, size |-> 0]

\* lines 862-869: the arguments obj_alloc_root hands to constructor_alloc_root
RootCtor(size) == [kind |-> "root", user_type |-> 0, size |-> size]

\* pmemobj_alloc_construct (lines 595-619); pmemobj_alloc, pmemobj_zalloc and
\* pmemobj_strdup end in it with their own payload constructor
pmemobj_alloc_construct(st, hp, ul, size, type_num, off, nomem) ==
    IF BadTypeNum(type_num) THEN LRes(FALSE, "EINVAL", OID_NULL, st, hp, ul)
    ELSE list_insert_new(st, hp, ul, type_num, FALSE, 0, FALSE, size,
                         BytypeCtor(type_num), off, nomem)

\* pmemobj_strdup (lines 762-782): its own check of type_num, then
\* pmemobj_alloc_construct of strlen(s) bytes
pmemobj_strdup(st, hp, ul, str, type_num, off, nomem) ==
    IF BadTypeNum(type_num) THEN LRes(FALSE, "EINVAL", OID_NULL, st, hp, ul)
    ELSE pmemobj_alloc_construct(st, hp, ul, strlen(str), type_num, off, nomem)

\* pmemobj_list_insert_new (lines 993-1019)
pmemobj_list_insert_new(st, hp, ul, dest, before, size, type_num, off, nomem) ==
    IF BadTypeNum(type_num) THEN LRes(FALSE, "EINVAL", OID_NULL, st, hp, ul)
    ELSE list_insert_new(st, hp, ul, type_num, TRUE, dest, before, size,
                         BytypeCtor(type_num), off, nomem)

\* obj_realloc_construct (lines 625-663), for an object whose user_type is
\* below PMEMOBJ_NUM_OID_TYPES (the ASSERT of line 633)
obj_realloc_construct_samelist(st, hp, ul, oid, size, type_num, off, nomem) ==
    LET user_type_old == hp[oid.off].user_type IN
    IF BadTypeNum(type_num) THEN LRes(FALSE, "EINVAL", OID_NULL, st, hp, ul)
    ELSE LET r == list_realloc(st, hp, ul, user_type_old, oid, size,
                               NoCtor, NoField, off, nomem)
         IN  IF ~r.ok THEN [r EXCEPT !.oid = OID_NULL] ELSE r
obj_realloc_construct(st, hp, ul, oid, size, type_num, off, nomem) ==
    LET user_type_old == hp[oid.off].user_type IN
    IF BadTypeNum(type_num) THEN LRes(FALSE, "EINVAL", OID_NULL, st, hp, ul)
    ELSE IF type_num = user_type_old
    THEN LET r == list_realloc(st, hp, ul, user_type_old, oid, size,
                               NoCtor, NoField, off, nomem)
         IN  IF ~r.ok THEN [r EXCEPT !.oid = OID_NULL] ELSE r
    ELSE LET r == list_realloc_move(st, hp, ul, user_type_old, type_num, oid,
                        size, NoCtor,
                        [name |-> "user_type", value |-> type_num], off, nomem)
         IN  IF ~r.ok THEN [r EXCEPT !.oid = OID_NULL] ELSE r

\* pmemobj_alloc_usable_size (lines 812-826)
pmemobj_alloc_usable_size(hp, oid) ==
    IF oid.off = 0 THEN 0 ELSE hp[oid.off].usable

\* pmemobj_free (lines 787-807): a failure of list_remove_free is only logged
pmemobj_free_head0(st, hp, ul, oid, fail) ==
    IF oid.off = 0 THEN LRes(TRUE, "none", OID_NULL, st, hp, ul)
    ELSE LET r == list_remove_free(st, hp, ul, 0, oid, fail)
         IN  [r EXCEPT !.ok = TRUE, !.oid = OID_NULL]
pmemobj_free(st, hp, ul, oid, fail) ==
    IF oid.off = 0 THEN LRes(TRUE, "none", OID_NULL, st, hp, ul)
    ELSE LET r == list_remove_free(st, hp, ul, hp[oid.off].user_type, oid, fail)
         IN  [r EXCEPT !.ok = TRUE, !.oid = OID_NULL]

\* pmemobj_first (lines 933-946)
pmemobj_first(st, type_num) ==
    IF BadTypeNum(type_num) THEN [oid |-> OID_NULL, errno |-> "EINVAL"]
    ELSE [oid |-> st[type_num].pe_first, errno |-> "none"]

\* pmemobj_next (lines 951-973)
pmemobj_next_noend(st, hp, oid) ==
    IF oid.off = 0 THEN OID_NULL ELSE hp[oid.off].pe_next
pmemobj_next(st, hp, oid) ==
    IF oid.off = 0 THEN OID_NULL
    ELSE LET user_type == hp[oid.off].user_type
         IN  IF hp[oid.off].pe_next.off # st[user_type].pe_first.off
             THEN hp[oid.off].pe_next
             ELSE OID_NULL

\* pmemobj_root_size (lines 890-901)
pmemobj_root_size(st, hp) ==
    IF st[RootIdx].pe_first.off # 0 THEN hp[st[RootIdx].pe_first.off].size
    ELSE 0

\* obj_alloc_root (lines 857-870)
obj_alloc_root(st, hp, ul, size, off, nomem) ==
    list_insert_new(st, hp, ul, RootIdx, FALSE, 0, FALSE, size,
                    RootCtor(size), off, nomem)

\* obj_realloc_root (lines 875-885)
obj_realloc_root(st, hp, ul, size, off, nomem) ==
    list_realloc(st, hp, ul, RootIdx, st[RootIdx].pe_first, size, NoCtor,
                 [name |-> "size", value |-> size], off, nomem)

\* pmemobj_root (lines 906-928), the whole call under pop->rootlock
pmemobj_root_shrink(st, hp, ul, size, off, nomem) ==
    IF st[RootIdx].pe_first.off = 0
    THEN LET r == obj_alloc_root(st, hp, ul, size, off, nomem)
         IN  [r EXCEPT !.ok = (r.st[RootIdx].pe_first.off # 0),
                       !.oid = r.st[RootIdx].pe_first]
    ELSE IF size # pmemobj_root_size(st, hp)
    THEN LET r == obj_realloc_root(st, hp, ul, size, off, nomem)
         IN  IF ~r.ok THEN [r EXCEPT !.oid = OID_NULL]
             ELSE [r EXCEPT !.oid = r.st[RootIdx].pe_first]
    ELSE LRes(TRUE, "none", st[RootIdx].pe_first, st, hp, ul)
pmemobj_root(st, hp, ul, size, off, nomem) ==
    IF st[RootIdx].pe_first.off = 0
    THEN LET r == obj_alloc_root(st, hp, ul, size, off, nomem)
         IN  [r EXCEPT !.ok = (r.st[RootIdx].pe_first.off # 0),
                       !.oid = r.st[RootIdx].pe_first]
    ELSE IF size > pmemobj_root_size(st, hp)
    THEN LET r == obj_realloc_root(st, hp, ul, size, off, nomem)
         IN  IF ~r.ok THEN [r EXCEPT !.oid = OID_NULL]
             ELSE [r EXCEPT !.oid = r.st[RootIdx].pe_first]
    ELSE LRes(TRUE, "none", st[RootIdx].pe_first, st, hp, ul)

(***************************************************************************)
(* The object calls of a client of the open pool                           *)
(***************************************************************************)
FreeOffs(hp) == {o \in Offs : ~hp[o].used}

\* the client's own objects: allocated, typed (not the root)
TypedOffs(hp) == {o \in Offs : hp[o].used /\ hp[o].user_type # UINT16_MAX}

\* the objects the client may free or resize: those not on its user list
LooseOffs(hp, ul) == TypedOffs(hp) \ SeqRange(ul)

\* what the allocator can answer a request with: no memory (0), or the
\* first free block
NewOffs(hp) ==
    {0} \cup {o \in FreeOffs(hp) : \A x \in FreeOffs(hp) : o <= x}

\* the outcome of the client's latest call: errno as the call left it
\* ("none" when it did not set it), the OID it returned, and a note:
\*   "retyped"  a successful realloc that changed the object's type
\*   "smaller"  a successful pmemobj_root that asked for less than the size
\*              of the root object
\*   "freed"    a pmemobj_free that removed an object
NoObjCall == [errno |-> "none", ret |-> OID_NULL, note |-> "none"]

ObjCall(errno, ret, note) == [errno |-> errno, ret |-> ret, note |-> note]

\* history: per type the objects in the order they entered the type's list;
\* the largest size a successful pmemobj_root asked for and what the latest
\* successful pmemobj_root returned; the number of times the root object
\* was resized
NoGhost ==
    [order |-> [t \in Types |-> <<>>], root_max |-> 0, root_ret |-> OID_NULL,
     epoch |-> 0]

SeqWithout(q, o) == SelectSeq(q, LAMBDA x : x # o)
SeqSubst(q, o, n) == [k \in 1..Len(q) |-> IF q[k] = o THEN n ELSE q[k]]

Max(a, b) == IF a >= b THEN a ELSE b

Entered(g, t, o) == [g EXCEPT !.order[t] = Append(g.order[t], o)]
Left(g, t, o)    == [g EXCEPT !.order[t] = SeqWithout(g.order[t], o)]

Commit(r) ==
    /\ store' = r.st
    /\ heap' = r.hp
    /\ ulist' = r.ul

\* pmemobj_alloc, pmemobj_zalloc, pmemobj_alloc_construct: each is
\* pmemobj_alloc_construct with its own payload constructor
AllocOp(size, type_num, off) ==
    \E r \in {pmemobj_alloc_construct(store, heap, ulist, size, type_num, off,
                                      FALSE)} :
        /\ Commit(r)
        /\ olast' = ObjCall(r.errno, r.oid, "none")
        /\ ghost' = IF r.ok THEN Entered(ghost, type_num, r.oid.off) ELSE ghost

StrdupOp(str, type_num, off) ==
    \E r \in {pmemobj_strdup(store, heap, ulist, str, type_num, off, FALSE)} :
        /\ Commit(r)
        /\ olast' = ObjCall(r.errno, r.oid, "none")
        /\ ghost' = IF r.ok THEN Entered(ghost, type_num, r.oid.off) ELSE ghost

ListInsertNewOp(dest, before, size, type_num, off) ==
    \E r \in {pmemobj_list_insert_new(store, heap, ulist, dest, before, size,
                                      type_num, off, FALSE)} :
        /\ Commit(r)
        /\ olast' = ObjCall(r.errno, r.oid, "none")
        /\ ghost' = IF r.ok THEN Entered(ghost, type_num, r.oid.off) ELSE ghost

\* pmemobj_realloc, pmemobj_zrealloc: each is obj_realloc_construct with its
\* own payload constructor
ReallocOp(o, size, type_num, off) ==
    \E told \in {heap[o].user_type},
       r \in {obj_realloc_construct(store, heap, ulist, OID(o), size, type_num,
                                    off, FALSE)} :
        /\ Commit(r)
        /\ olast' = ObjCall(r.errno, r.oid,
                            IF r.ok /\ type_num # told THEN "retyped"
                            ELSE "none")
        /\ ghost' = IF ~r.ok THEN ghost
                    ELSE IF type_num = told
                    THEN [ghost EXCEPT !.order[told] =
                            SeqSubst(ghost.order[told], o, r.oid.off)]
                    ELSE Entered(Left(ghost, told, o), type_num, r.oid.off)

\* pmemobj_free returns nothing and reports no failure
FreeOp(oid, fail) ==
    \E told \in {IF oid.off = 0 THEN 0 ELSE heap[oid.off].user_type},
       r \in {pmemobj_free(store, heap, ulist, oid, fail)} :
        /\ Commit(r)
        /\ olast' = ObjCall("none", OID_NULL,
                            IF oid.off = 0 \/ fail THEN "none" ELSE "freed")
        /\ ghost' = IF oid.off = 0 \/ fail THEN ghost
                    ELSE Left(ghost, told, oid.off)

FirstOp(type_num) ==
    \E r \in {pmemobj_first(store, type_num)} :
        /\ olast' = ObjCall(r.errno, r.oid, "none")
        /\ UNCHANGED <<store, heap, ulist, ghost>>

NextOp(oid) ==
    /\ olast' = ObjCall("none", pmemobj_next(store, heap, oid), "none")
    /\ UNCHANGED <<store, heap, ulist, ghost>>

RootOp(size, off) ==
    \E r \in {pmemobj_root(store, heap, ulist, size, off, FALSE)} :
        /\ Commit(r)
        /\ olast' = ObjCall(r.errno, r.oid,
                            IF r.ok /\ size < pmemobj_root_size(store, heap)
                            THEN "smaller" ELSE "none")
        /\ ghost' = IF ~r.ok THEN ghost
                    ELSE [ghost EXCEPT !.root_max = Max(@, size),
                                       !.root_ret = r.oid]

Alloc ==
    \E size \in Sizes, type_num \in TypeArgs, off \in NewOffs(heap) :
        AllocOp(size, type_num, off)

Strdup ==
    \E n \in Sizes, type_num \in TypeArgs, off \in NewOffs(heap) :
        StrdupOp([k \in 1..n |-> 1], type_num, off)

\* the client inserts at the head or at the tail of its list
ListInsertNew ==
    \E before \in BOOLEAN, size \in Sizes, type_num \in TypeArgs,
       off \in NewOffs(heap) :
        ListInsertNewOp(0, before, size, type_num, off)

\* the allocator resizes in place (off = o) or into a new block
Realloc ==
    \E o \in LooseOffs(heap, ulist), size \in Sizes, type_num \in TypeArgs :
        \E off \in NewOffs(heap) \cup {o} :
            ReallocOp(o, size, type_num, off)

Free ==
    \E o \in LooseOffs(heap, ulist) \cup {0}, fail \in BOOLEAN :
        FreeOp(IF o = 0 THEN OID_NULL ELSE OID(o), fail)

First == \E type_num \in TypeArgs : FirstOp(type_num)

NextCursor ==
    \E o \in TypedOffs(heap) \cup {0} :
        NextOp(IF o = 0 THEN OID_NULL ELSE OID(o))

Root ==
    \E size \in Sizes,
       off \in NewOffs(heap) \cup {store[RootIdx].pe_first.off} :
        RootOp(size, off)

(***************************************************************************)
(* pmemobj_root, statement by statement, for concurrent callers            *)
(***************************************************************************)
Threads == 1..NThreads

NoLocals ==
    [size |-> 0, root |-> OID_NULL, ret |-> OID_NULL, done |-> FALSE,
     epoch |-> 0, calls |-> 0]

\* line 913: pmemobj_mutex_lock(pop, &pop->rootlock)
RootLock_nolock(t, size) ==
    /\ pc[t] = "idle"
    /\ tloc[t].calls < MaxCalls
    /\ pc' = [pc EXCEPT ![t] = "locked"]
    /\ tloc' = [tloc EXCEPT ![t] = [NoLocals EXCEPT !.size = size,
                                       !.calls = tloc[t].calls + 1]]
    /\ UNCHANGED <<rootlock, store, heap, ulist, ghost>>
RootLock(t, size) ==
    /\ pc[t] = "idle"
    /\ tloc[t].calls < MaxCalls
    /\ rootlock = 0
    /\ rootlock' = t
    /\ pc' = [pc EXCEPT ![t] = "locked"]
    /\ tloc' = [tloc EXCEPT ![t] = [NoLocals EXCEPT !.size = size,
                                       !.calls = tloc[t].calls + 1]]
    /\ UNCHANGED <<store, heap, ulist, ghost>>

\* line 914: if (pop->store->root.head.pe_first.off == 0)
RootTest(t) ==
    /\ pc[t] = "locked"
    /\ pc' = [pc EXCEPT ![t] = IF store[RootIdx].pe_first.off = 0
                               THEN "alloc" ELSE "grow"]
    /\ UNCHANGED <<rootlock, tloc, store, heap, ulist, ghost>>

\* line 916: obj_alloc_root(pop, pop->store, size), its result ignored
RootAlloc(t, off) ==
    /\ pc[t] = "alloc"
    /\ Commit(obj_alloc_root(store, heap, ulist, tloc[t].size, off, FALSE))
    /\ pc' = [pc EXCEPT ![t] = "read"]
    /\ UNCHANGED <<rootlock, tloc, ghost>>

\* lines 918-923: if (size > pmemobj_root_size(pop)) obj_realloc_root(...)
RootGrow(t, off) ==
    /\ pc[t] = "grow"
    /\ IF tloc[t].size > pmemobj_root_size(store, heap)
       THEN LET r == obj_realloc_root(store, heap, ulist, tloc[t].size, off,
                                      FALSE)
            IN  /\ Commit(r)
                /\ IF r.ok
                   THEN /\ pc' = [pc EXCEPT ![t] = "read"]
                        /\ ghost' = [ghost EXCEPT !.epoch = @ + 1]
                        /\ UNCHANGED <<rootlock, tloc>>
                   ELSE \* unlock, return OID_NULL
                        /\ pc' = [pc EXCEPT ![t] = "idle"]
                        /\ rootlock' = IF rootlock = t THEN 0 ELSE rootlock
                        /\ tloc' = [tloc EXCEPT ![t].done = TRUE,
                                                ![t].ret = OID_NULL,
                                                ![t].epoch = ghost.epoch]
                        /\ UNCHANGED ghost
       ELSE /\ pc' = [pc EXCEPT ![t] = "read"]
            /\ UNCHANGED <<rootlock, tloc, store, heap, ulist, ghost>>

\* line 925: root = pop->store->root.head.pe_first
RootRead(t) ==
    /\ pc[t] = "read"
    /\ tloc' = [tloc EXCEPT ![t].root = store[RootIdx].pe_first]
    /\ pc' = [pc EXCEPT ![t] = "unlock"]
    /\ UNCHANGED <<rootlock, store, heap, ulist, ghost>>

\* lines 926-927: pmemobj_mutex_unlock(pop, &pop->rootlock); return root
RootUnlock(t) ==
    /\ pc[t] = "unlock"
    /\ rootlock' = IF rootlock = t THEN 0 ELSE rootlock
    /\ pc' = [pc EXCEPT ![t] = "idle"]
    /\ tloc' = [tloc EXCEPT ![t].done = TRUE, ![t].ret = tloc[t].root,
                            ![t].epoch = ghost.epoch]
    /\ UNCHANGED <<store, heap, ulist, ghost>>

TLock   == \E t \in Threads, size \in Sizes : RootLock(t, size)
TTest   == \E t \in Threads : RootTest(t)
TAlloc  == \E t \in Threads, off \in NewOffs(heap) : RootAlloc(t, off)
TGrow   ==
    \E t \in Threads,
       off \in NewOffs(heap) \cup {store[RootIdx].pe_first.off} :
        RootGrow(t, off)
TRead   == \E t \in Threads : RootRead(t)
TUnlock == \E t \in Threads : RootUnlock(t)

(***************************************************************************)
(* The specifications                                                      *)
(***************************************************************************)
ObjInitVals ==
    /\ store = EmptyStore
    /\ heap = EmptyHeap
    /\ ulist = <<>>
    /\ olast = NoObjCall
    /\ ghost = NoGhost

ThrInitVals ==
    /\ pc = [t \in Threads |-> "idle"]
    /\ rootlock = 0
    /\ tloc = [t \in Threads |-> NoLocals]
    /\ mem = NoMem
    /\ run = NoRun

\* the lifecycle: no pool is open; a path has no file or a zero-filled one
Init ==
    /\ files \in [Paths -> {NoFile, ZeroFile}]
    /\ handles = [p \in Paths |-> NoHandle]
    /\ pools = {}
    /\ last = NoCall
    /\ hist = [p \in Paths |-> NoHist]
    /\ ObjInitVals
    /\ ThrInitVals

Next ==
    \/ Create /\ UNCHANGED <<objVars, thrVars, auxVars>>
    \/ Open /\ UNCHANGED <<objVars, thrVars, auxVars>>
    \/ Close /\ UNCHANGED <<objVars, thrVars, auxVars>>
    \/ Check /\ UNCHANGED <<objVars, thrVars, auxVars>>

Spec == Init /\ [][Next]_vars

\* the object calls: the state after pmemobj_create(ObjPath, "a", PoolSize)
Created ==
    pmemobj_map_common(ZeroFile, ObjPath, Str(<<1>>), PoolSize, FALSE, TRUE,
                       ObjUuid, "none", {})

InitObj ==
    /\ files = [p \in Paths |-> IF p = ObjPath THEN Created.file ELSE NoFile]
    /\ handles = [p \in Paths |-> IF p = ObjPath THEN Created.pop ELSE NoHandle]
    /\ pools = Created.tab
    /\ last = NoCall
    /\ hist = [p \in Paths |-> NoHist]
    /\ ObjInitVals
    /\ ThrInitVals

NextObj ==
    \/ Alloc /\ UNCHANGED <<lifeVars, thrVars, auxVars>>
    \/ Strdup /\ UNCHANGED <<lifeVars, thrVars, auxVars>>
    \/ ListInsertNew /\ UNCHANGED <<lifeVars, thrVars, auxVars>>
    \/ Realloc /\ UNCHANGED <<lifeVars, thrVars, auxVars>>
    \/ Free /\ UNCHANGED <<lifeVars, thrVars, auxVars>>
    \/ First /\ UNCHANGED <<lifeVars, thrVars, auxVars>>
    \/ NextCursor /\ UNCHANGED <<lifeVars, thrVars, auxVars>>
    \/ Root /\ UNCHANGED <<lifeVars, thrVars, auxVars>>

SpecObj == InitObj /\ [][NextObj]_vars

\* concurrent pmemobj_root on the pool, initially without a root object
NextRoot ==
    \/ TLock /\ UNCHANGED <<lifeVars, olast, auxVars>>
    \/ TTest /\ UNCHANGED <<lifeVars, olast, auxVars>>
    \/ TAlloc /\ UNCHANGED <<lifeVars, olast, auxVars>>
    \/ TGrow /\ UNCHANGED <<lifeVars, olast, auxVars>>
    \/ TRead /\ UNCHANGED <<lifeVars, olast, auxVars>>
    \/ TUnlock /\ UNCHANGED <<lifeVars, olast, auxVars>>

SpecRoot == InitObj /\ [][NextRoot]_vars

(***************************************************************************)
(* Properties of the object directory and the allocation facade (checked   *)
(* under SpecObj)                                                          *)
(***************************************************************************)
\* C5: every object linked in bytype[t] is an allocated block whose OOB
\* header holds user_type = t and internal_type = OP_ALLOC, for every type t.
C5_BytypeMembers ==
    \A t \in Types :
        \A k \in 1..Len(Ring(store, heap, t)) :
            LET o == Ring(store, heap, t)[k]
            IN  /\ heap[o].used
                /\ heap[o].user_type = t
                /\ heap[o].internal_type = "OP_ALLOC"

\* a type list with two members, one of them put there by
\* pmemobj_list_insert_new
C5_Witness ==
    /\ ulist # <<>>
    /\ \E t \in Types :
           /\ Len(Ring(store, heap, t)) >= 2
           /\ SeqRange(ulist) \cap SeqRange(Ring(store, heap, t)) # {}

\* the client's loop: o = pmemobj_first(pop, t); while (o is not null)
\* o = pmemobj_next(o); the offsets visited, cut off after n steps
RECURSIVE Visit(_, _)
Visit(oid, n) ==
    IF oid.off = 0 \/ n = 0 THEN <<>>
    ELSE <<oid.off>> \o Visit(pmemobj_next(store, heap, oid), n - 1)

\* C6: for every type t, pmemobj_first and then pmemobj_next visit the live
\* objects of type t, each once, in the order they entered the list, and
\* then return the null OID: pmemobj_next of the last one is null,
\* pmemobj_next of the null OID is null, and the loop ends within as many
\* steps as there are objects.
C6_Enumeration ==
    /\ pmemobj_next(store, heap, OID_NULL) = OID_NULL
    /\ \A t \in Types :
           LET v == Visit(pmemobj_first(store, t).oid, MaxBlocks + 1)
           IN  /\ v = ghost.order[t]
               /\ Cardinality(SeqRange(v)) = Len(v)
               /\ SeqRange(v) =
                      {o \in TypedOffs(heap) : heap[o].user_type = t}
               /\ Len(v) > 0 =>
                      pmemobj_next(store, heap, OID(v[Len(v)])) = OID_NULL

\* two objects of one type, visited in insertion order against the order of
\* their offsets
C6_Witness ==
    \E t \in Types :
        LET v == Visit(pmemobj_first(store, t).oid, MaxBlocks + 1)
        IN  /\ Len(v) = 2
            /\ v[1] > v[2]
            /\ pmemobj_next(store, heap, OID(v[1])) = OID(v[2])

\* C7: every typed object is linked in exactly one type list; and in every
\* reachable state a successful realloc of an object o of type t1 to type t2
\* returns an OID that is linked in bytype[t2] with user_type = t2 and,
\* when t2 # t1, leaves neither o nor the result in bytype[t1]; the state
\* it leaves has again every typed object in exactly one list.
C7_ReallocType ==
    /\ \A x \in TypedOffs(heap) :
           Cardinality({t \in Types : x \in SeqRange(Ring(store, heap, t))}) = 1
    /\ \A o \in LooseOffs(heap, ulist), size \in Sizes, t2 \in Types :
           \A off \in NewOffs(heap) \cup {o} :
               LET t1 == heap[o].user_type
                   r  == obj_realloc_construct(store, heap, ulist, OID(o), size,
                                               t2, off, FALSE)
                   in1 == SeqRange(Ring(r.st, r.hp, t1))
                   in2 == SeqRange(Ring(r.st, r.hp, t2))
               IN  r.ok =>
                     /\ r.oid.off \in in2
                     /\ r.hp[r.oid.off].user_type = t2
                     /\ t2 # t1 => (r.oid.off \notin in1 /\ o \notin in1)
                     /\ \A x \in TypedOffs(r.hp) :
                            Cardinality({t \in Types :
                                x \in SeqRange(Ring(r.st, r.hp, t))}) = 1

\* the latest call was a realloc that changed the type: its result is the
\* last element of the list of its new type, which held an object before
C7_Witness ==
    /\ olast.note = "retyped"
    /\ olast.ret.off # 0
    /\ LET t2 == heap[olast.ret.off].user_type
           q  == Ring(store, heap, t2)
       IN  /\ Len(q) = 2
           /\ q[2] = olast.ret.off

\* C8: in every reachable state, for a type_num below 0 or at least
\* PMEMOBJ_NUM_OID_TYPES, each of pmemobj_alloc / pmemobj_zalloc /
\* pmemobj_alloc_construct, pmemobj_strdup, pmemobj_realloc /
\* pmemobj_zrealloc, pmemobj_first and pmemobj_list_insert_new returns the
\* null OID with errno EINVAL and leaves the type lists, the root list, the
\* user list and every object as they were.
C8_InvalidType ==
    \A type_num \in {-2, -1, PMEMOBJ_NUM_OID_TYPES, PMEMOBJ_NUM_OID_TYPES + 1} :
        LET rejected == LRes(FALSE, "EINVAL", OID_NULL, store, heap, ulist)
        IN  /\ pmemobj_first(store, type_num) =
                    [oid |-> OID_NULL, errno |-> "EINVAL"]
            /\ \A size \in Sizes, off \in NewOffs(heap) :
                   /\ pmemobj_alloc_construct(store, heap, ulist, size,
                            type_num, off, FALSE) = rejected
                   /\ pmemobj_strdup(store, heap, ulist, [k \in 1..size |-> 1],
                            type_num, off, FALSE) = rejected
                   /\ \A before \in BOOLEAN :
                          pmemobj_list_insert_new(store, heap, ulist, 0, before,
                              size, type_num, off, FALSE) = rejected
            /\ \A o \in LooseOffs(heap, ulist), size \in Sizes :
                   \A off \in NewOffs(heap) \cup {o} :
                       obj_realloc_construct(store, heap, ulist, OID(o), size,
                           type_num, off, FALSE) = rejected

\* the latest call was rejected with EINVAL on a pool that holds a typed
\* object and the root object
C8_Witness ==
    /\ olast.errno = "EINVAL"
    /\ olast.ret = OID_NULL
    /\ TypedOffs(heap) # {}
    /\ store[RootIdx].pe_first.off # 0

\* C9: once a pmemobj_root has succeeded, the root object exists, its
\* recorded size is the largest size a successful pmemobj_root asked for,
\* and the latest successful pmemobj_root returned its OID; a pmemobj_root
\* asking for no more than that size returns the same OID and changes
\* nothing.
C9_RootSize ==
    /\ ghost.root_max > 0 =>
           /\ store[RootIdx].pe_first.off # 0
           /\ pmemobj_root_size(store, heap) = ghost.root_max
           /\ ghost.root_ret = store[RootIdx].pe_first
    /\ store[RootIdx].pe_first.off # 0 =>
           \A size \in Sizes :
               \A off \in NewOffs(heap) \cup {store[RootIdx].pe_first.off} :
                   size <= pmemobj_root_size(store, heap) =>
                       pmemobj_root(store, heap, ulist, size, off, FALSE) =
                           LRes(TRUE, "none", ghost.root_ret, store, heap, ulist)

\* the latest call was a pmemobj_root asking for less than the size the
\* root object had grown to
C9_Witness ==
    /\ olast.note = "smaller"
    /\ olast.ret = store[RootIdx].pe_first
    /\ olast.ret.off # 0
    /\ pmemobj_root_size(store, heap) = MaxSize
    /\ ghost.root_max = MaxSize

(***************************************************************************)
(* Property of concurrent pmemobj_root (checked under SpecRoot)            *)
(***************************************************************************)
\* C10: under any interleaving of pmemobj_root calls the root list holds at
\* most one element, that element has user_type UINT16_MAX, and every
\* caller that returned a non-null OID after which the root object was not
\* resized holds the OID of the root object, the same for all of them.
C10_RootOnce ==
    /\ Len(Ring(store, heap, RootIdx)) <= 1
    /\ \A k \in 1..Len(Ring(store, heap, RootIdx)) :
           heap[Ring(store, heap, RootIdx)[k]].user_type = UINT16_MAX
    /\ \A t \in Threads :
           (/\ tloc[t].done
            /\ tloc[t].ret.off # 0
            /\ tloc[t].epoch = ghost.epoch) =>
               tloc[t].ret = store[RootIdx].pe_first

\* every thread has returned from pmemobj_root with the OID of the root
\* object, all idle
C10_Witness ==
    /\ \A t \in Threads :
           /\ pc[t] = "idle"
           /\ tloc[t].done
           /\ tloc[t].ret.off # 0
           /\ tloc[t].ret = store[RootIdx].pe_first
    /\ \E t1, t2 \in Threads : tloc[t1].size # tloc[t2].size

(***************************************************************************)
(* Payload bytes: pmemobj_alloc, pmemobj_zalloc and pmemobj_zrealloc       *)
(*                                                                         *)
(* mem[off] is the payload of block off, one byte per unit of its usable   *)
(* size.  Memory the allocator hands out holds whatever it held before:    *)
(* every such byte is `fill`, chosen freely at each call.                  *)
(***************************************************************************)
\* largest size a client of SpecZ requests
ZMaxSize == 4

ZSizes == 1..ZMaxSize
Bytes  == {0, 1}

\* a fresh payload of n bytes
Fresh(n, fill) == [k \in 1..n |-> fill]

\* the payload after the allocator resized a block to n usable bytes: the
\* old bytes that fit, then memory as the allocator hands it out
ReallocPayload(old, n, fill) ==
    [k \in 1..n |-> IF k <= Len(old) THEN old[k] ELSE fill]

\* constructor_zalloc (lines 532-543): memset_persist(ptr, 0, carg->len)
constructor_zalloc(data, len) ==
    [k \in 1..Len(data) |-> IF k <= len THEN 0 ELSE data[k]]

\* constructor_zrealloc (lines 675-691):
\* memset_persist(ptr + old_size, 0, new_size - old_size)
constructor_zrealloc_whole(data, old_size, new_size) ==
    [k \in 1..Len(data) |-> IF k <= new_size THEN 0 ELSE data[k]]
constructor_zrealloc(data, old_size, new_size) ==
    [k \in 1..Len(data) |->
        IF k > old_size /\ k <= old_size + (new_size - old_size) THEN 0
        ELSE data[k]]

\* the result of a facade call with the payloads it leaves
ZRes(r, m) == [r |-> r, mem |-> m]

\* pmemobj_alloc (lines 513-521): no payload constructor
pmemobj_alloc(st, hp, ul, m, size, type_num, off, nomem, fill) ==
    LET r == pmemobj_alloc_construct(st, hp, ul, size, type_num, off, nomem)
    IN  ZRes(r, IF r.ok
                THEN [m EXCEPT ![r.oid.off] = Fresh(UsableFor(size), fill)]
                ELSE m)

\* pmemobj_zalloc (lines 548-559): carg.len = size
pmemobj_zalloc(st, hp, ul, m, size, type_num, off, nomem, fill) ==
    LET r == pmemobj_alloc_construct(st, hp, ul, size, type_num, off, nomem)
    IN  ZRes(r, IF r.ok
                THEN [m EXCEPT ![r.oid.off] =
                        constructor_zalloc(Fresh(UsableFor(size), fill), size)]
                ELSE m)

\* pmemobj_realloc (lines 696-704): no payload constructor
pmemobj_realloc(st, hp, ul, m, oid, size, type_num, off, nomem, fill) ==
    LET r  == obj_realloc_construct(st, hp, ul, oid, size, type_num, off, nomem)
        d0 == ReallocPayload(m[oid.off], UsableFor(size), fill)
    IN  ZRes(r, IF r.ok
                THEN [[m EXCEPT ![oid.off] = <<>>] EXCEPT ![r.oid.off] = d0]
                ELSE m)

\* pmemobj_zrealloc (lines 709-727): carg.old_size is the usable size of the
\* object; constructor_zrealloc only when new_size > old_size
pmemobj_zrealloc(st, hp, ul, m, oid, size, type_num, off, nomem, fill) ==
    LET old_size == pmemobj_alloc_usable_size(hp, oid)
        r  == obj_realloc_construct(st, hp, ul, oid, size, type_num, off, nomem)
        d0 == ReallocPayload(m[oid.off], UsableFor(size), fill)
        d1 == IF size > old_size THEN constructor_zrealloc(d0, old_size, size)
              ELSE d0
    IN  ZRes(r, IF r.ok
                THEN [[m EXCEPT ![oid.off] = <<>>] EXCEPT ![r.oid.off] = d1]
                ELSE m)

\* the outcome of the latest call of SpecZ: the call, whether it succeeded,
\* the OID it returned, the size asked for, the usable size and the payload
\* of the object before the call
NoZCall ==
    [op |-> "none", ok |-> FALSE, ret |-> OID_NULL, size |-> 0,
     old_size |-> 0, before |-> <<>>]

ZCall(op, r, size, old_size, before) ==
    [op |-> op, ok |-> r.ok, ret |-> r.oid, size |-> size,
     old_size |-> old_size, before |-> before]

ZCommit(z) ==
    /\ Commit(z.r)
    /\ mem' = z.mem
    /\ UNCHANGED <<ghost, run>>

ZAlloc ==
    \E size \in ZSizes, type_num \in Types, off \in NewOffs(heap),
       fill \in Bytes :
        \E z \in {pmemobj_alloc(store, heap, ulist, mem, size, type_num, off,
                                FALSE, fill)} :
            /\ ZCommit(z)
            /\ olast' = ZCall("alloc", z.r, size, 0, <<>>)

ZZalloc ==
    \E size \in ZSizes, type_num \in Types, off \in NewOffs(heap),
       fill \in Bytes :
        \E z \in {pmemobj_zalloc(store, heap, ulist, mem, size, type_num, off,
                                 FALSE, fill)} :
            /\ ZCommit(z)
            /\ olast' = ZCall("zalloc", z.r, size, 0, <<>>)

ZRealloc ==
    \E o \in TypedOffs(heap), size \in ZSizes, type_num \in Types,
       fill \in Bytes :
        \E off \in NewOffs(heap) \cup {o} :
            \E z \in {pmemobj_realloc(store, heap, ulist, mem, OID(o), size,
                                      type_num, off, FALSE, fill)} :
                /\ ZCommit(z)
                /\ olast' = ZCall("realloc", z.r, size,
                                  pmemobj_alloc_usable_size(heap, OID(o)),
                                  mem[o])

ZZrealloc ==
    \E o \in TypedOffs(heap), size \in ZSizes, type_num \in Types,
       fill \in Bytes :
        \E off \in NewOffs(heap) \cup {o} :
            \E z \in {pmemobj_zrealloc(store, heap, ulist, mem, OID(o), size,
                                       type_num, off, FALSE, fill)} :
                /\ ZCommit(z)
                /\ olast' = ZCall("zrealloc", z.r, size,
                                  pmemobj_alloc_usable_size(heap, OID(o)),
                                  mem[o])

ZFree ==
    \E o \in TypedOffs(heap) :
        \E r \in {pmemobj_free(store, heap, ulist, OID(o), FALSE)} :
            /\ Commit(r)
            /\ mem' = [mem EXCEPT ![o] = <<>>]
            /\ olast' = ZCall("free", r, 0, 0, <<>>)
            /\ UNCHANGED <<ghost, run>>

InitZ ==
    /\ files = [p \in Paths |-> IF p = ObjPath THEN Created.file ELSE NoFile]
    /\ handles = [p \in Paths |-> IF p = ObjPath THEN Created.pop ELSE NoHandle]
    /\ pools = Created.tab
    /\ last = NoCall
    /\ hist = [p \in Paths |-> NoHist]
    /\ store = EmptyStore
    /\ heap = EmptyHeap
    /\ ulist = <<>>
    /\ olast = NoZCall
    /\ ghost = NoGhost
    /\ ThrInitVals

NextZ ==
    \/ ZAlloc /\ UNCHANGED <<lifeVars, thrVars>>
    \/ ZZalloc /\ UNCHANGED <<lifeVars, thrVars>>
    \/ ZRealloc /\ UNCHANGED <<lifeVars, thrVars>>
    \/ ZZrealloc /\ UNCHANGED <<lifeVars, thrVars>>
    \/ ZFree /\ UNCHANGED <<lifeVars, thrVars>>

SpecZ == InitZ /\ [][NextZ]_vars

\* C11: after a successful pmemobj_zrealloc(pop, o, N', t), with old_size the
\* usable size of o before the call: when N' > old_size, bytes
\* [old_size, N') of the result are zero and bytes [0, old_size) are those
\* of o before the call; when N' <= old_size no byte is zeroed, the bytes
\* that remain are those of o before the call.
C11_ZreallocBytes ==
    (olast.op = "zrealloc" /\ olast.ok) =>
        LET d   == mem[olast.ret.off]
            old == olast.old_size
        IN  /\ Len(d) >= olast.size
            /\ Len(olast.before) = old
            /\ olast.size > old =>
                  /\ \A k \in (old + 1)..olast.size : d[k] = 0
                  /\ \A k \in 1..old : d[k] = olast.before[k]
            /\ olast.size <= old =>
                  \A k \in 1..Len(d) : d[k] = olast.before[k]

\* a zrealloc that grew an object holding non-zero bytes into memory that
\* was not zero, and left allocation slack past N'
C11_Witness ==
    /\ olast.op = "zrealloc"
    /\ olast.ok
    /\ olast.size > olast.old_size
    /\ \E k \in 1..olast.old_size : olast.before[k] = 1
    /\ Len(mem[olast.ret.off]) > olast.size
    /\ mem[olast.ret.off][Len(mem[olast.ret.off])] = 1

(***************************************************************************)
(* pmemobj_free (checked under SpecObj)                                    *)
(***************************************************************************)
\* C12: in every reachable state, pmemobj_free of the null OID changes
\* nothing; pmemobj_free(o) of a live object of type t removes exactly o
\* from bytype[t] (pmemobj_first / pmemobj_next no longer return it, its
\* block is free), leaves the order of the others in bytype[t], every other
\* type list, the root list, the user list and every other object as they
\* were; and when list_remove_free fails nothing changes and the caller is
\* told nothing.
C12_FreeFrame ==
    /\ \A fail \in BOOLEAN :
           pmemobj_free(store, heap, ulist, OID_NULL, fail)
               = LRes(TRUE, "none", OID_NULL, store, heap, ulist)
    /\ \A o \in LooseOffs(heap, ulist) :
           LET t == heap[o].user_type
               r == pmemobj_free(store, heap, ulist, OID(o), FALSE)
               f == pmemobj_free(store, heap, ulist, OID(o), TRUE)
           IN  /\ r.ok /\ r.oid = OID_NULL
               /\ Ring(r.st, r.hp, t) = SeqWithout(Ring(store, heap, t), o)
               /\ \A i \in (0..RootIdx) \ {t} :
                      Ring(r.st, r.hp, i) = Ring(store, heap, i)
               /\ ~r.hp[o].used
               /\ pmemobj_first(r.st, t).oid # OID(o)
               /\ \A x \in TypedOffs(r.hp) :
                      pmemobj_next(r.st, r.hp, OID(x)) # OID(o)
               /\ \A x \in Offs \ {o} :
                      /\ r.hp[x].used = heap[x].used
                      /\ r.hp[x].internal_type = heap[x].internal_type
                      /\ r.hp[x].user_type = heap[x].user_type
                      /\ r.hp[x].size = heap[x].size
                      /\ r.hp[x].usable = heap[x].usable
               /\ r.ul = ulist
               /\ f.ok /\ f.oid = OID_NULL
               /\ f.st = store /\ f.hp = heap /\ f.ul = ulist

\* the latest call was a pmemobj_free that removed an object and left
\* another object linked
C12_Witness ==
    /\ olast.note = "freed"
    /\ \E i \in 0..RootIdx : store[i].pe_first.off # 0
    /\ FreeOffs(heap) # {}

(***************************************************************************)
(* pmemobj_check on pool files whose run_id was left at any value          *)
(*                                                                         *)
(* SpecCheck starts from a closed pool file with a valid header and        *)
(* descriptor and an arbitrary run_id (a file prepared outside the         *)
(* library, e.g. with run_id forced odd), and runs the lifecycle calls.    *)
(***************************************************************************)
InitCheck ==
    /\ \E r \in 0..(RunIdMod - 1) :
           files = [p \in Paths |-> [Created.file EXCEPT !.run_id = r]]
    /\ handles = [p \in Paths |-> NoHandle]
    /\ pools = {}
    /\ last = NoCall
    /\ hist = [p \in Paths |-> NoHist]
    /\ ObjInitVals
    /\ ThrInitVals

SpecCheck == InitCheck /\ [][Next]_vars

\* C13: pmemobj_check returns -1 exactly when the pool cannot be opened,
\* mapped or validated (pmemobj_map_common gives no handle), otherwise 0
\* when the run_id of the pool is odd or heap_check or lane_check fails, and
\* 1 otherwise; a pool whose persistent run_id is odd is never reported
\* consistent.
C13_CheckResult ==
    (last.op = "check") =>
        LET odd == last.run_before % 2 = 1
        IN  /\ last.ret \in {-1, 0, 1}
            /\ (last.ret = -1) <=> ~last.ok
            /\ last.ok => ((last.ret = 0) <=> (odd \/ last.fault))
            /\ odd => last.ret # 1

\* a check of a pool with an odd run_id, heap_check and lane_check passing
C13_Witness ==
    /\ last.op = "check"
    /\ last.ok
    /\ ~last.fault
    /\ last.run_before % 2 = 1
    /\ last.ret = 0

(***************************************************************************)
(* The lifecycle calls statement by statement, with crashes                *)
(*                                                                         *)
(* files[path] is what is durable on the media.  run.cache is the content  *)
(* of the file as the running system sees it (the page cache): a store     *)
(* through a shared mapping changes the cache, pmem_msync makes a region   *)
(* durable, the system may write a dirty region back at any time, and a    *)
(* crash loses what was not written back.  A read-only pool is mapped      *)
(* copy-on-write: stores go to the private copy run.priv and are never     *)
(* written back.  One call runs at a time; run.pc is its position.         *)
(***************************************************************************)
Regions == {"hdr", "run_id", "lanes", "obj_store", "dsc", "heap"}

\* an existing file that never held a pool: a zero header page, anything
\* in the rest
JunkFile ==
    [exists |-> TRUE, hdr |-> ZeroHdr, dsc |-> ZeroDsc, run_id |-> 1,
     lanes |-> "junk", obj_store |-> "junk", heap |-> "junk"]

\* a pool made by a later version of the library: a valid header with an
\* incompat feature this version does not know
ForeignFile ==
    LET h == [NewHdr(ObjUuid) EXCEPT !.incompat = {1}]
    IN  [Created.file EXCEPT !.hdr = [h EXCEPT !.checksum = HdrSum(h)],
                             !.run_id = 2]

\* the addresses util_map can return: one not in use
Addrs == {"m1", "m2"}
FreeAddr(h) == CHOOSE a \in Addrs : \A p \in Paths : h[p].mapped => h[p].addr # a

\* whether the latest crash interrupted lane_boot or heap_boot of a
\* pmemobj_create / pmemobj_open ("boot"), and what the latest crash of a
\* pmemobj_create left durable: "none" (no such crash, or a later create
\* has started to write the pool), "nohdr" (a zero header), "partial", or "complete"
\* (see Complete)
NoCrash == [at |-> "none", create |-> "none"]

\* no call in progress
IdleRun(cache, crash) ==
    [pc |-> "idle", op |-> "none", path |-> "p1", layout |-> NullLayout,
     cow |-> FALSE, rdonly |-> FALSE, empty |-> FALSE, addr |-> NULL,
     mapped |-> FALSE, errno |-> "none", first |-> "none", ret |-> 0,
     cache |-> cache, priv |-> NoFile, pop |-> NoHandle, wlog |-> <<>>,
     booted |-> {}, crash |-> crash]

\* the content of the mapping of the call in progress, a store to it, and
\* pmem_msync of one of its regions
View(r) == IF r.cow THEN r.priv ELSE r.cache
Wr(r, img) == IF r.cow THEN [r EXCEPT !.priv = img] ELSE [r EXCEPT !.cache = img]
Msync(med, r, reg) ==
    IF r.cow THEN med ELSE [med EXCEPT ![reg] = r.cache[reg]]

\* the outcome of a call of SpecStep: errno as the call left it, the error
\* of its first failing step, the address it had mapped the file at (NULL:
\* it had not) and whether that mapping is still mapped
StepCall(r, ok, ret) ==
    [op |-> r.op, path |-> r.path, ok |-> ok, ret |-> ret,
     errno |-> r.errno, first |-> r.first, mapped |-> r.mapped,
     addr |-> r.addr, booted |-> r.booted]

NoStepCall == StepCall(IdleRun(NoFile, NoCrash), FALSE, 0)

\* a step fails: errno = e; goto err
Fail(r, e) == [r EXCEPT !.errno = e, !.first = e, !.pc = "err"]

\* the call returns without having mapped the file
Return(r, ok, ret) ==
    /\ run' = IdleRun(r.cache, r.crash)
    /\ last' = StepCall(r, ok, ret)

\* util_pool_create / util_pool_open and util_map (lines 141-146) at the
\* start of pmemobj_create, pmemobj_open and pmemobj_check: the call is
\* refused, or the file is mapped at a free address
StartCall(op, path, layout, poolsize, mapfault) ==
    LET f   == files[path]
        r0  == [IdleRun(run.cache, run.crash) EXCEPT !.op = op, !.path = path,
                    !.layout = layout]
        bad == IF op = "create"
               THEN (poolsize # 0 /\ f.exists) \/ (poolsize = 0 /\ ~f.exists)
               ELSE ~f.exists
        c   == IF f.exists THEN run.cache ELSE ZeroFile
    IN  /\ run.pc = "idle"
        /\ IF bad
           THEN /\ Return([r0 EXCEPT !.errno = IF f.exists THEN "EEXIST"
                                               ELSE "ENOENT"], FALSE, 0)
                /\ UNCHANGED files
           ELSE /\ files' = [files EXCEPT ![path] = IF f.exists THEN f
                                                     ELSE ZeroFile]
                /\ IF mapfault
                   THEN Return([r0 EXCEPT !.errno = "ENOMEM", !.cache = c],
                               FALSE, 0)
                   ELSE /\ run' = [r0 EXCEPT
                               !.pc = IF op = "create" THEN "c_hdr"
                                      ELSE "validate",
                               !.cow = (op = "check"),
                               !.rdonly = (op = "check"),
                               !.empty = (op = "create"),
                               !.addr = FreeAddr(handles), !.mapped = TRUE,
                               !.cache = c,
                               !.priv = IF op = "check" THEN c ELSE NoFile]
                        /\ UNCHANGED last
        /\ UNCHANGED <<handles, pools>>

\* lines 159-212: validation of an existing pool
ValidateStep(r) ==
    LET v == ValidateOpen(View(r), r.layout, r.rdonly)
    IN  IF v.errno # "none" THEN Fail(r, v.errno)
        ELSE [r EXCEPT !.rdonly = v.rdonly, !.pc = "runid"]

\* the element after x in the sequence q, or end after the last one
After(q, x, end) ==
    LET k == CHOOSE j \in 1..Len(q) : q[j] = x
    IN  IF k = Len(q) THEN end ELSE q[k + 1]

\* lines 218-303: the statements of the create path, in program order
CreateOrder_dscfirst ==
    <<"c_hdr", "c_hdrsync", "c_runid", "c_dsc", "c_dscsync", "c_lanes",
      "c_store", "c_heap">>
CreateOrder ==
    <<"c_hdr", "c_hdrsync", "c_runid", "c_lanes", "c_store", "c_dsc",
      "c_heap", "c_dscsync">>

\* lines 440-453: the statements of pmemobj_close, in program order
CloseOrder_unmapfirst == <<"cl_unmap", "cl_cleanup", "cl_remove">>
CloseOrder == <<"cl_remove", "cl_cleanup", "cl_unmap">>

\* lines 213-303: the create path, one durable write at a time.  The result
\* is the call and the media.
CreateStep(r, med, uuid, fault) ==
    LET img == View(r)
        nxt == After(CreateOrder, r.pc, "runid")
        out(r1, reg) ==
            [run |-> [r1 EXCEPT !.pc = nxt, !.wlog = Append(r1.wlog, reg)],
             med |-> Msync(med, r1, reg)]
    IN  CASE r.pc = "c_hdr" ->
               [run |-> IF ~util_is_zeroed(img.hdr) THEN Fail(r, "EINVAL")
                        ELSE IF ~r.layout.null
                                /\ strlen(r.layout.str) >= PMEMOBJ_MAX_LAYOUT
                            THEN Fail(r, "EINVAL")
                        ELSE IF fault
                            THEN Fail(Wr(r, [img EXCEPT
                                        !.hdr = NewHdrNoSum(uuid)]), "EINVAL")
                        ELSE [Wr(r, [img EXCEPT !.hdr =
                                 [NewHdrNoSum(uuid) EXCEPT !.arch = "host"]])
                              EXCEPT !.pc = nxt],
                med |-> med]
          [] r.pc = "c_hdrsync" ->
               out(Wr(r, [img EXCEPT !.hdr.checksum = HdrSum(img.hdr)]),
                   "hdr")
          [] r.pc = "c_runid" ->
               out(Wr(r, [img EXCEPT !.run_id = 0]), "run_id")
          [] r.pc = "c_lanes" ->
               out(Wr(r, [img EXCEPT !.lanes = "zero"]), "lanes")
          [] r.pc = "c_store" ->
               out(Wr(r, [img EXCEPT !.obj_store = "zero"]), "obj_store")
          [] r.pc = "c_dsc" ->
               [run |-> [Wr(r, [img EXCEPT !.dsc =
                                   NewDscNoSum(r.layout, PoolSize)])
                         EXCEPT !.pc = nxt],
                med |-> med]
          [] r.pc = "c_heap" ->
               IF fault THEN [run |-> Fail(r, "ENOMEM"), med |-> med]
               ELSE out(Wr(r, [img EXCEPT !.heap = "init"]), "heap")
          [] r.pc = "c_dscsync" ->
               out(Wr(r, [img EXCEPT !.dsc.checksum = DscSum(img.dsc)]),
                   "dsc")

\* lines 371-376: oerrno = errno; util_unmap(addr, poolsize) (which leaves
\* unmap_errno in errno when it fails); errno = oerrno
ErrPath_norestore(errno, unmap_errno) ==
    IF unmap_errno # "none" THEN unmap_errno ELSE errno
ErrPath(errno, unmap_errno) ==
    LET oerrno == errno
    IN  oerrno

\* what a crash of a pmemobj_create leaves on the media: everything a pool
\* needs but the header (zeroed lanes and object store, the initialised
\* heap, the descriptor with its checksum), or not
Complete(med) ==
    /\ med.exists
    /\ med.lanes = "zero"
    /\ med.obj_store = "zero"
    /\ med.heap = "init"
    /\ med.dsc.checksum = DscSum(med.dsc)

\* the layout arguments of SpecStep: NULL, "a", "aa"
StepLayouts == LayoutArgs \ {Str(<<>>)}

\* pmemobj_create(path, layout, poolsize, mode), pmemobj_open(path, layout),
\* pmemobj_check(path, layout) up to util_map
SCall ==
    \E op \in {"create", "open", "check"}, path \in Paths,
       layout \in StepLayouts, poolsize \in {0, PoolSize}, mapfault \in BOOLEAN :
        /\ (op # "create") => (poolsize = 0)
        /\ StartCall(op, path, layout, poolsize, mapfault)

SValidate ==
    /\ run.pc = "validate"
    /\ run' = ValidateStep(run)
    /\ UNCHANGED <<files, handles, pools, last>>

SCreate ==
    /\ run.pc \in SeqRange(CreateOrder)
    /\ \E fault \in BOOLEAN :
           \E c \in {CreateStep(run, files[run.path], ObjUuid, fault)} :
               /\ run' = IF run.pc = Head(CreateOrder)
                          THEN [c.run EXCEPT !.crash.create = "none"]
                          ELSE c.run
               /\ files' = [files EXCEPT ![run.path] = c.med]
    /\ UNCHANGED <<handles, pools, last>>

\* lines 305-341: run_id += 2 (and again on 0), pmem_msync, and the runtime
\* part of the handle
SRunId ==
    /\ run.pc = "runid"
    /\ \E r1 \in {Wr(run, BumpRunId(View(run)))} :
           /\ run' = [r1 EXCEPT !.pc = "lane_boot",
                         !.pop = [mapped |-> TRUE, path |-> run.path,
                                  rdonly |-> run.rdonly,
                                  uuid_lo |-> RuntimeUuidLo(View(r1), run.empty),
                                  run_id |-> View(r1).run_id,
                                  addr |-> run.addr]]
           /\ files' = [files EXCEPT ![run.path] = Msync(@, r1, "run_id")]
    /\ UNCHANGED <<handles, pools, last>>

\* lines 343-351: lane_boot, then heap_boot; run.booted holds the runtime
\* subsystems that were booted for the mapping and not cleaned up
SBoot ==
    /\ run.pc \in {"lane_boot", "heap_boot"}
    /\ \E fault \in BOOLEAN :
           run' = IF fault THEN Fail(run, "ENOMEM")
                  ELSE IF run.pc = "lane_boot"
                      THEN [run EXCEPT !.pc = "heap_boot",
                                       !.booted = @ \cup {"lanes"}]
                  ELSE [run EXCEPT !.pc = "insert",
                                   !.booted = @ \cup {"heap"}]
    /\ UNCHANGED <<files, handles, pools, last>>

\* lines 363-369: cuckoo_insert, return pop
SInsert ==
    /\ run.pc = "insert"
    /\ \E nomem \in BOOLEAN :
           \E ins \in {cuckoo_insert(pools, run.pop.uuid_lo, run.addr, nomem)} :
               IF ins.rc # "none"
               THEN /\ run' = Fail(run, ins.rc)
                    /\ UNCHANGED <<handles, pools, last>>
               ELSE /\ pools' = ins.tab
                    /\ IF run.op = "check"
                       THEN /\ run' = [run EXCEPT !.pc = "chk"]
                            /\ UNCHANGED <<handles, last>>
                       ELSE /\ handles' = [handles EXCEPT ![run.path] = run.pop]
                            /\ last' = StepCall(run, TRUE, 1)
                            /\ run' = IdleRun(run.cache, run.crash)
    /\ UNCHANGED files

\* lines 371-376: the error path
SErr ==
    /\ run.pc = "err"
    /\ \E unmap_errno \in {"none", "EINVAL"} :
           \E r1 \in {[run EXCEPT !.mapped = FALSE,
                           !.errno = ErrPath(run.errno, unmap_errno)]} :
               Return(r1, FALSE, 0)
    /\ UNCHANGED <<files, handles, pools>>

\* pmemobj_check, lines 476-491: the tests on the mapped pool
SCheck ==
    /\ run.pc = "chk"
    /\ \E heap_check \in BOOLEAN, lane_check \in BOOLEAN :
           run' = [run EXCEPT !.pc = CloseOrder[1],
                       !.ret = IF RunIdOdd(run.pop) \/ ~heap_check \/ ~lane_check
                               THEN 0 ELSE 1]
    /\ UNCHANGED <<files, handles, pools, last>>

\* pmemobj_close(pop) of the open pool begins
SCloseCall ==
    /\ run.pc = "idle"
    /\ \E path \in Paths :
           /\ handles[path].mapped
           /\ run' = [IdleRun(run.cache, run.crash) EXCEPT !.op = "close",
                          !.pc = CloseOrder[1], !.path = path,
                          !.pop = handles[path], !.addr = handles[path].addr,
                          !.mapped = TRUE, !.booted = {"lanes", "heap"}]
    /\ UNCHANGED <<files, handles, pools, last>>

\* pmemobj_close, lines 440-453: cuckoo_remove, then heap_cleanup and
\* lane_cleanup, then util_unmap
SClose ==
    /\ run.pc \in SeqRange(CloseOrder)
    /\ \E r1 \in {[run EXCEPT !.pc = After(CloseOrder, run.pc, "idle"),
                        !.mapped = (@ /\ run.pc # "cl_unmap"),
                        !.booted = IF run.pc = "cl_cleanup" THEN {} ELSE @]} :
           /\ pools' = IF run.pc = "cl_remove"
                       THEN cuckoo_remove(pools, run.pop.uuid_lo).tab
                       ELSE pools
           /\ IF r1.pc = "idle"
              THEN /\ handles' = IF run.op = "close"
                                 THEN [handles EXCEPT ![run.path] = NoHandle]
                                 ELSE handles
                   /\ Return(r1, TRUE, run.ret)
              ELSE /\ run' = r1
                   /\ UNCHANGED <<handles, last>>
    /\ UNCHANGED files

\* the system writes a dirty region of the file back to the media
SWriteback ==
    /\ \E path \in Paths, reg \in Regions :
           /\ files[path].exists
           /\ run.cache[reg] # files[path][reg]
           /\ files' = [files EXCEPT ![path][reg] = run.cache[reg]]
    /\ UNCHANGED <<handles, pools, last, run>>

\* the system crashes: the process and what was not durable are gone
SCrash ==
    /\ \E path \in Paths :
           run' = IdleRun(files[path],
                     [at |-> IF run.pc \in {"lane_boot", "heap_boot"}
                                /\ ~run.cow
                             THEN "boot" ELSE "other",
                      create |-> IF run.op = "create" /\ run.mapped
                                 THEN IF util_is_zeroed(files[path].hdr)
                                          THEN "nohdr"
                                      ELSE IF Complete(files[path])
                                          THEN "complete"
                                      ELSE "partial"
                                 ELSE run.crash.create])
    /\ handles' = [p \in Paths |-> NoHandle]
    /\ pools' = {}
    /\ last' = [NoStepCall EXCEPT !.op = "crash"]
    /\ UNCHANGED files

\* a path has no file, or a file that never held a pool, or a pool of a
\* later version of the library
InitStep ==
    /\ files \in [Paths -> {NoFile, JunkFile, ForeignFile}]
    /\ handles = [p \in Paths |-> NoHandle]
    /\ pools = {}
    /\ last = NoStepCall
    /\ hist = [p \in Paths |-> NoHist]
    /\ ObjInitVals
    /\ pc = [t \in Threads |-> "idle"]
    /\ rootlock = 0
    /\ tloc = [t \in Threads |-> NoLocals]
    /\ mem = NoMem
    /\ run = IdleRun(files["p1"], NoCrash)

NextStep ==
    \/ SCall /\ UNCHANGED <<hist, objVars, thrVars, mem>>
    \/ SValidate /\ UNCHANGED <<hist, objVars, thrVars, mem>>
    \/ SCreate /\ UNCHANGED <<hist, objVars, thrVars, mem>>
    \/ SRunId /\ UNCHANGED <<hist, objVars, thrVars, mem>>
    \/ SBoot /\ UNCHANGED <<hist, objVars, thrVars, mem>>
    \/ SInsert /\ UNCHANGED <<hist, objVars, thrVars, mem>>
    \/ SErr /\ UNCHANGED <<hist, objVars, thrVars, mem>>
    \/ SCheck /\ UNCHANGED <<hist, objVars, thrVars, mem>>
    \/ SCloseCall /\ UNCHANGED <<hist, objVars, thrVars, mem>>
    \/ SClose /\ UNCHANGED <<hist, objVars, thrVars, mem>>
    \/ SWriteback /\ UNCHANGED <<hist, objVars, thrVars, mem>>
    \/ SCrash /\ UNCHANGED <<hist, objVars, thrVars, mem>>

SpecStep == InitStep /\ [][NextStep]_vars

(***************************************************************************)
(* Properties of the lifecycle calls, statement by statement (checked      *)
(* under SpecStep)                                                         *)
(***************************************************************************)
\* C14: when a pmemobj_create or pmemobj_open that had mapped the file has
\* failed (in the validation of the header, the layout, the descriptor
\* checksum or the features, on a non-zero header or an oversized layout,
\* in util_get_arch_flags, heap_init, lane_boot, heap_boot or
\* cuckoo_insert), it has returned null, its mapping is unmapped, errno is
\* the error of the first failing step, and neither the registry nor an
\* open handle refers to that mapping.
C14_FailureCleanup ==
    (/\ run.pc = "idle"
     /\ last.op \in {"create", "open"}
     /\ ~last.ok
     /\ last.addr # NULL) =>
        /\ last.ret = 0
        /\ ~last.mapped
        /\ last.errno # "none"
        /\ last.errno = last.first
        /\ \A e \in pools : e.pop # last.addr
        /\ \A p \in Paths : handles[p].mapped => handles[p].addr # last.addr

\* a create that failed with ENOMEM (heap_init, lane_boot, heap_boot or
\* cuckoo_insert) after the header had been written
C14_Witness ==
    /\ run.pc = "idle"
    /\ last.op = "create"
    /\ ~last.ok
    /\ last.addr # NULL
    /\ last.errno = "ENOMEM"
    /\ ~util_is_zeroed(run.cache.hdr)

\* C15 as stated: after a crash that interrupted lane_boot or heap_boot of
\* a pmemobj_create / pmemobj_open (the run_id update being durable), the
\* persistent run_id of the pool is odd.
C15_CrashedOpenOdd ==
    (last.op = "crash" /\ run.crash.at = "boot") =>
        \A p \in Paths : files[p].run_id % 2 = 1

\* C16 as stated: when the create path of pmemobj_map_common is through,
\* its durable writes were made in the order lanes, object store,
\* descriptor with checksum, heap, header with checksum (the store of 0 to
\* run_id aside), the header last.
C16_HeaderLast ==
    (run.op = "create" /\ run.pc = "runid") =>
        SelectSeq(run.wlog, LAMBDA w : w # "run_id")
            = <<"lanes", "obj_store", "dsc", "heap", "hdr">>

\* C17: every entry of the registry maps the uuid_lo of a pool to a mapping
\* that is mapped: that of an open handle, or that of a pmemobj_check
\* between its cuckoo_insert and its cuckoo_remove.  Between calls the
\* registry holds exactly one entry per open handle.  While
\* pmemobj_map_common runs for create / open, the registry has no entry for
\* its mapping (the insert is its last step; after a failed insert on a
\* uuid_lo already present the previous entry is still there), and once
\* pmemobj_close is past cuckoo_remove the registry has no entry for the
\* mapping, which is unmapped only afterwards.
C17_Registry ==
    LET HandleEntry(p) == [key |-> handles[p].uuid_lo, pop |-> handles[p].addr]
        Opened == {p \in Paths : handles[p].mapped}
        closing == run.op = "close" /\ run.pc # "cl_remove"
    IN  /\ \A e \in pools :
               \/ \E p \in Opened : e = HandleEntry(p) /\ ~closing
               \/ /\ run.op = "check" /\ run.pc \in {"chk", "cl_remove"}
                  /\ run.mapped
                  /\ e = [key |-> run.pop.uuid_lo, pop |-> run.addr]
        /\ run.pc = "idle" => pools = {HandleEntry(p) : p \in Opened}
        /\ (run.op \in {"create", "open"} /\ run.pc # "idle") =>
               /\ \A e \in pools : e.pop # run.addr
               /\ pools = {HandleEntry(p) : p \in Opened}
        /\ (run.op = "close" /\ run.pc = "cl_remove") =>
               (run.mapped /\ pools = {HandleEntry(p) : p \in Opened})
        /\ (run.op \in {"close", "check"}
            /\ run.pc \in {"cl_cleanup", "cl_unmap"}) =>
               (run.mapped /\ \A e \in pools : e.pop # run.addr)

\* a pmemobj_open of a pool that is open passed the validation, advanced
\* run_id and failed in cuckoo_insert: the entry of the open handle is there
C17_Witness ==
    /\ run.pc = "idle"
    /\ last.op = "open"
    /\ ~last.ok
    /\ last.errno = "EINVAL"
    /\ \E p \in Paths :
           /\ handles[p].mapped
           /\ handles[p].run_id # files[p].run_id
           /\ pools = {[key |-> handles[p].uuid_lo, pop |-> handles[p].addr]}

C18_HeaderDescriptorFrame ==
    [][\A p \in Paths :
           hist[p].created =>
               /\ files'[p].exists
               /\ files'[p].hdr = files[p].hdr
               /\ files'[p].dsc = files[p].dsc]_vars

\* a pool that was created has been opened again: its run_id has moved, its
\* header and descriptor are those of the creation
C18_Witness ==
    \E p \in Paths :
        /\ hist[p].created
        /\ last.op = "open"
        /\ last.path = p
        /\ last.ok
        /\ files[p].run_id # last.run_before
        /\ util_convert_hdr(files[p].hdr)
        /\ files[p].dsc.checksum = DscSum(files[p].dsc)

\* C19 as stated: a pmemobj_open that fails leaves the files as they were,
\* run_id included.
C19_AsStated ==
    [][(last'.op = "open" /\ ~last'.ok) => files' = files]_vars

\* C19: a pmemobj_open that fails before it has validated the pool (no
\* file, util_map, the header, the layout, the descriptor checksum or the
\* features) leaves the files as they were; one that fails later (in
\* lane_boot, heap_boot or cuckoo_insert) leaves them as they were but for
\* the run_id of the pool, which is advanced as by a successful open.
C19_FailedOpen ==
    [][(last'.op = "open" /\ ~last'.ok) =>
           LET p == last'.path
               f == files[p]
               validated ==
                   /\ f.exists
                   /\ last'.at # "map"
                   /\ ValidateOpen(f, last'.layout, FALSE).errno = "none"
           IN  files' = IF validated
                        THEN [files EXCEPT ![p].run_id = NextRunId(f.run_id)]
                        ELSE files]_vars

\* a pmemobj_open has failed in lane_boot or heap_boot and the run_id of the
\* pool is no longer the one it found
C19_Witness ==
    /\ last.op = "open"
    /\ ~last.ok
    /\ last.at \in {"lane_boot", "heap_boot"}
    /\ last.errno = "ENOMEM"
    /\ files[last.path].run_id # last.run_before

(***************************************************************************)
(* Read-only handles                                                       *)
(*                                                                         *)
(* SpecRo starts from a closed pool file that is valid, written either by  *)
(* this version of the library or by one that set a ro_compat feature this *)
(* version does not know, and runs the lifecycle calls.                    *)
(***************************************************************************)
\* a pool whose header carries an unknown ro_compat feature (lines 206-212:
\* util_feature_check returns 0 on it)
RoCompatFile ==
    LET h == [NewHdr(ObjUuid) EXCEPT !.ro_compat = {1}]
    IN  [Created.file EXCEPT !.hdr = [h EXCEPT !.checksum = HdrSum(h)]]

InitRo ==
    /\ files \in [Paths -> {Created.file, RoCompatFile}]
    /\ handles = [p \in Paths |-> NoHandle]
    /\ pools = {}
    /\ last = NoCall
    /\ hist = [p \in Paths |-> NoHist]
    /\ ObjInitVals
    /\ ThrInitVals

SpecRo == InitRo /\ [][Next]_vars

\* C21 as stated: a pmemobj_check that got a handle, and a pmemobj_open that
\* returned a read-only handle (unknown ro_compat features), leave the
\* files, run_id included, as they were before the call.
C21_ReadOnlyNoWrite ==
    [][(/\ last'.op \in {"open", "check"}
        /\ last'.ok
        /\ last'.op = "open" => handles'[last'.path].rdonly) =>
           files' = files]_vars

(***************************************************************************)
(* The user_type assertions (checked under SpecObj)                        *)
(***************************************************************************)
\* ASSERT(pobj->user_type < PMEMOBJ_NUM_OID_TYPES) of obj_realloc_construct
\* (line 633), pmemobj_free (line 801), pmemobj_next (line 966) and
\* pmemobj_list_remove (line 1034), on the OOB header of oid
UserTypeAssert(hp, oid) == hp[oid.off].user_type < PMEMOBJ_NUM_OID_TYPES

\* C22 as stated: the assertion holds for every non-null OID a call of the
\* public API has returned (pmemobj_root included).
C22_AssertsHold ==
    (olast.ret.off # 0) => UserTypeAssert(heap, olast.ret)

(***************************************************************************)
(* Runtime subsystems on the error path (checked under SpecStep)           *)
(***************************************************************************)
\* C23 as stated: when a pmemobj_create or pmemobj_open has returned null,
\* no runtime subsystem that call booted (lanes, heap) is left booted.
C23_FailureUnboots ==
    (/\ run.pc = "idle"
     /\ last.op \in {"create", "open"}
     /\ ~last.ok) =>
        last.booted = {}

(***************************************************************************)
(* Zeroed objects (checked under SpecZ)                                    *)
(*                                                                         *)
(* The clients of SpecZ never write a payload, so every byte of an object  *)
(* is one the client has never written.                                    *)
(***************************************************************************)
\* C24 as stated, for the only object of the pool: when the object was
\* returned by a pmemobj_zalloc or pmemobj_zrealloc that asked for N bytes,
\* its bytes below N are zero, and the next call is a successful
\* pmemobj_zrealloc of it that asks for N' bytes, then the bytes below N' of
\* the result are zero.
C24_ZeroBelowRequest ==
    [][(/\ olast.op \in {"zalloc", "zrealloc"}
        /\ olast.ok
        /\ TypedOffs(heap) = {olast.ret.off}
        /\ \A k \in 1..olast.size : mem[olast.ret.off][k] = 0
        /\ olast'.op = "zrealloc"
        /\ olast'.ok) =>
           \A k \in 1..olast'.size : mem'[olast'.ret.off][k] = 0]_vars

====
